---- MODULE Spec2Model ----
(***************************************************************************)
(* A model of the 3x-ui panel client (services/xui_client.py): the scoped  *)
(* session of one XUIClient instance, its login exchange, the request      *)
(* executor _make_request with its single retry on HTTP 401, the          *)
(* lifecycle operations built on the executor, the link generator, and the *)
(* bot handlers that use the client (bot/handlers/user.py and admin.py).   *)
(*                                                                         *)
(* Every await of the client on the panel is one step of the model: the    *)
(* request is put on the wire by one action and the panel's answer (or the *)
(* transport failure) is consumed by the next one.                         *)
(***************************************************************************)
EXTENDS Integers, Sequences, FiniteSets, TLC

VARIABLES
    client,          \* self.client: "None", "open" (an AsyncClient), "closed"
    session_cookie,  \* self.session_cookie: NoneVal or the Cookie header text
    pc,              \* where the instance's single coroutine stands
    frame,           \* the _make_request frame in progress (method, endpoint, data, retry flag)
    wire,            \* HTTP requests put on the wire since the current operation started
    frame0,          \* Len(wire) when the current executor call started
    answers,         \* what the panel answered to the requests of the current executor call
    outcome,         \* how the last executor call / login ended (return or raise)
    log,             \* records written through core.logger.log
    ncalls,          \* operations started in this session
    op,              \* the public operation in progress (or the last one) and its locals
    result,          \* how the last public operation ended (return or raise)
    panel,           \* the inbounds the remote panel holds (not state of the client)
    before,          \* the panel's inbounds when the current operation started
    prev,            \* the operation before the current one and how it ended
    peer,            \* another client instance working on the same panel
    link,            \* a call of get_client_link from get_inbound's answer on, and its result
    bot              \* the bot's handler in progress, its local database and what it sent

vars == <<client, session_cookie, pc, frame, wire, frame0, answers, outcome, log, ncalls, op,
          result, panel, before, prev, peer, link, bot>>

\* What no step of this client instance writes by itself.
world == <<panel, before, prev, peer, link, bot>>

-----------------------------------------------------------------------------
(* Bounds of the model *)

\* operations started within one scoped session
MaxCalls == 2
\* cookies a login response may set
MaxCookies == 2
\* log records the model keeps (later records are dropped)
MaxLog == 4
\* requests remembered per operation
MaxWire == 6
\* inbounds the panel lists
MaxInbounds == 2

-----------------------------------------------------------------------------
(* Values *)

NoneVal == "None"

\* settings.XUI_BASE_URL.rstrip('/')
base_url == "https://panel.example:2053"

login_url == base_url \o "/login"

\* The value a dict-typed JSON body decodes to: the panel's envelope.
Envelope(success, msg, obj) == [success |-> success, msg |-> msg, obj |-> obj]

\* The "obj" of an envelope: null, a missing key, a list of items ...
JNull == [kind |-> "null", items |-> <<>>]
JAbsent == [kind |-> "absent", items |-> <<>>]
JList(items) == [kind |-> "list", items |-> items]
\* ... or one JSON object (a dict)
JObj(o) == [kind |-> "obj", items |-> <<o>>]

NoVal == Envelope(FALSE, <<>>, JNull)

\* An exception object: its class and the message it was built with
\* (the f-string's text and the values interpolated into it).
Exc(cls, fmt, args) == [cls |-> cls, fmt |-> fmt, args |-> args]

NoErr == Exc("None", "", <<>>)

XUIClientError(fmt, args) == Exc("XUIClientError", fmt, args)

Return(v) == [kind |-> "return", val |-> v, err |-> NoErr]
Raise(e) == [kind |-> "raise", val |-> NoVal, err |-> e]
NoOutcome == [kind |-> "none", val |-> NoVal, err |-> NoErr]

\* One HTTP exchange as httpx reports it: an exception of the RequestError
\* family, or a response (status, body text, whether the text is JSON and
\* what it decodes to, cookies set).
HttpResponse(status, text, wf, val, cookies) ==
    [exc |-> "None", status |-> status, text |-> text, wf |-> wf, val |-> val,
     cookies |-> cookies]

HttpFailure(e) ==
    [exc |-> e, status |-> 0, text |-> "", wf |-> FALSE, val |-> NoVal, cookies |-> <<>>]

\* httpx.TimeoutException and its subclasses
TimeoutException == {"ConnectTimeout", "ReadTimeout"}
\* httpx.RequestError and its subclasses (ConnectError and the timeouts among them)
RequestError == {"ConnectError", "ReadError"} \cup TimeoutException

-----------------------------------------------------------------------------
(* Logging: core.logger.log, one record per call of log.<level> *)

LogRec(level, text, arg) == <<level, text, arg>>

\* The records `recs` appended to the log `l` (the model keeps MaxLog records).
Logged(l, recs) ==
    LET all == l \o recs
    IN  IF Len(all) <= MaxLog THEN all ELSE SubSeq(all, 1, MaxLog)

\* The request `r` appended to the requests seen so far (the model keeps MaxWire).
OnWire(w, r) == IF Len(w) < MaxWire THEN Append(w, r) ELSE w

-----------------------------------------------------------------------------
(* Session Manager: XUIClient.login *)

\* "; ".join(f"{name}={value}" for name, value in cookies.items())
RECURSIVE JoinCookies(_)
JoinCookies(cookies) ==
    IF Len(cookies) = 0 THEN ""
    ELSE IF Len(cookies) = 1 THEN cookies[1][1] \o "=" \o cookies[1][2]
    ELSE cookies[1][1] \o "=" \o cookies[1][2] \o "; " \o JoinCookies(Tail(cookies))

\* The POST login() puts on the wire: form-encoded credentials, no Cookie header.
LoginRequest ==
    [method |-> "POST", url |-> login_url, body |-> "username&password", cookie |-> NoneVal]

\* A login that takes any 200 response for a session.
HasCookies_Unchecked(r) == TRUE

\* `if cookies:` (line 122): the response set at least one cookie.
HasCookies(r) == r.cookies # <<>>

\* A login that forgets the stored session when it fails.
CookieAfterFailedLogin_Cleared(cookie) == NoneVal

\* What login() leaves in self.session_cookie when it raises.
CookieAfterFailedLogin(cookie) == cookie

\* What login() does with a 200 response (lines 117-132).  The XUIClientError
\* raised at line 132 is raised inside the try block, so the handler of line
\* 148 (except Exception) catches it and raises the "Login failed" error.
LoginAccepted(cookie, r) ==
    IF HasCookies(r)
    THEN [session_cookie |-> JoinCookies(r.cookies),
          outcome |-> Return(Envelope(TRUE, <<>>, JNull)),
          logs |-> <<LogRec("info", "Successfully authenticated with 3x-ui panel", "")>>]
    ELSE [session_cookie |-> CookieAfterFailedLogin(cookie),
          outcome |-> Raise(XUIClientError("Login failed: {} - {}",
                          <<"XUIClientError", "No session cookie received">>)),
          logs |-> <<LogRec("error", "No cookies received from 3x-ui panel", ""),
                     LogRec("error", "Login error", "XUIClientError")>>]

\* login() given the outcome `r` of its POST and the stored cookie: the cookie
\* it leaves, what it returns or raises, what it logs (lines 92-152).
login(cookie, r) ==
    IF r.exc = "ConnectError"
    THEN [session_cookie |-> CookieAfterFailedLogin(cookie),
          outcome |-> Raise(XUIClientError("Connection failed: Cannot connect to {}",
                                           <<login_url>>)),
          logs |-> <<LogRec("error", "Connection error during login", r.exc)>>]
    ELSE IF r.exc \in TimeoutException
    THEN [session_cookie |-> CookieAfterFailedLogin(cookie),
          outcome |-> Raise(XUIClientError("Connection timeout to {}", <<login_url>>)),
          logs |-> <<LogRec("error", "Timeout error during login", r.exc)>>]
    ELSE IF r.exc \in RequestError
    THEN [session_cookie |-> CookieAfterFailedLogin(cookie),
          outcome |-> Raise(XUIClientError("Login failed: {} - {}", <<r.exc, "">>)),
          logs |-> <<LogRec("error", "Network error during login", r.exc)>>]
    ELSE IF r.status = 200
    THEN LoginAccepted(cookie, r)
    ELSE [session_cookie |-> CookieAfterFailedLogin(cookie),
          outcome |-> Raise(XUIClientError("Login failed: {} - {}",
                          <<"XUIClientError",
                            "Authentication failed with status " \o ToString(r.status)>>)),
          logs |-> <<LogRec("error", "Authentication failed with status", ToString(r.status)),
                     LogRec("error", "Login error", "XUIClientError")>>]

-----------------------------------------------------------------------------
(* Request Executor: XUIClient._make_request *)

NoFrame == [method |-> "", endpoint |-> "", data |-> NoneVal, retry_on_auth_error |-> FALSE]

Frame(method, endpoint, data, retry) ==
    [method |-> method, endpoint |-> endpoint, data |-> data, retry_on_auth_error |-> retry]

\* method.upper() for the spellings the model uses
Upper(method) ==
    CASE method = "get" -> "GET"
      [] method = "post" -> "POST"
      [] OTHER -> method

\* `if self.session_cookie:` (line 56): None and "" attach no Cookie header.
CookieHeader(cookie) == IF cookie \in {NoneVal, ""} THEN NoneVal ELSE cookie

\* Lines 50-67: what _make_request does before it awaits the panel: it raises,
\* or it puts one request on the wire.  A GET carries no body.
BeginRequest(cl, cookie, f) ==
    IF cl = "None"
    THEN [act |-> "raise",
          err |-> XUIClientError("Client not initialized. Use async context manager.", <<>>)]
    ELSE IF Upper(f.method) = "GET"
    THEN [act |-> "send",
          req |-> [method |-> "GET", url |-> base_url \o f.endpoint, body |-> NoneVal,
                   cookie |-> CookieHeader(cookie)]]
    ELSE IF Upper(f.method) = "POST"
    THEN [act |-> "send",
          req |-> [method |-> "POST", url |-> base_url \o f.endpoint, body |-> f.data,
                   cookie |-> CookieHeader(cookie)]]
    ELSE [act |-> "raise",
          err |-> XUIClientError("Unsupported HTTP method: {}", <<f.method>>)]

\* An executor that re-authenticates on every error status.
IsAuthRetry_AnyErrorStatus(r, retry_on_auth_error) == r.status >= 400 /\ retry_on_auth_error

\* Line 73: the response asks for the single re-authentication.
IsAuthRetry(r, retry_on_auth_error) == r.status = 401 /\ retry_on_auth_error

\* A recursive call that keeps the retry flag of its caller set.
RetryFlagOfRetry_StillSet == TRUE

\* Line 76: the flag the recursive call is made with.
RetryFlagOfRetry == FALSE

\* A status error that does not say which status it was.
StatusError_NoStatus(r) == XUIClientError("API request failed", <<>>)

\* Line 81: the error raised for a status in the error range.
StatusError(r) == XUIClientError("API request failed with status {}", <<ToString(r.status)>>)

\* A transport failure reported as if the panel had answered.
TransportError_AsStatus(r) == XUIClientError("API request failed with status {}", <<r.exc>>)

\* Lines 85-87: the error raised for an httpx.RequestError of the call itself.
TransportError(r) == XUIClientError("Network error: {}", <<r.exc>>)

\* Lines 88-90: the error raised when response.json() fails.
DecodeError(r) == XUIClientError("Invalid JSON response: {}", <<"JSONDecodeError">>)

\* Lines 69-90: what _make_request does with the outcome `r` of its HTTP
\* exchange: start the re-login, raise, or return the decoded body.
HandleResponse(f, r) ==
    IF r.exc \in RequestError
    THEN [act |-> "raise", err |-> TransportError(r), val |-> NoVal,
          logs |-> <<LogRec("error", "Network error during XUI API request", r.exc)>>]
    ELSE LET line70 == LogRec("info", "XUI API " \o f.method \o " " \o f.endpoint,
                              ToString(r.status))
         IN  IF IsAuthRetry(r, f.retry_on_auth_error)
             THEN [act |-> "relogin", err |-> NoErr, val |-> NoVal,
                   logs |-> <<line70, LogRec("warning", "Session expired, re-authenticating...", "")>>]
             ELSE IF r.status >= 400
             THEN [act |-> "raise", err |-> StatusError(r), val |-> NoVal,
                   logs |-> <<line70, LogRec("error", "XUI API error", r.text)>>]
             ELSE IF ~r.wf
             THEN [act |-> "raise", err |-> DecodeError(r), val |-> NoVal,
                   logs |-> <<line70, LogRec("error", "Failed to parse JSON response", "")>>]
             ELSE [act |-> "return", err |-> NoErr, val |-> r.val, logs |-> <<line70>>]

-----------------------------------------------------------------------------
(* Inbounds and clients as the panel serves them *)

ListEndpoint == "/panel/api/inbounds/list"
AddClientEndpoint == "/panel/api/inbounds/addClient"

\* Client labels (emails) of the model.
Labels == {"a", "b"}

Client(id, email, enable) == [id |-> id, email |-> email, enable |-> enable]

\* An inbound's "settings": serialized text that json.loads decodes to a dict
\* with a "clients" list, or that it cannot decode.
Settings(clients) == [wf |-> TRUE, clients |-> clients]
MalformedSettings == [wf |-> FALSE, clients |-> <<>>]

\* An inbound of a listing; `remark` may be a missing key.
RemarkAbsent == "<no remark key>"
Inbound(id, remark, settings) == [id |-> id, remark |-> remark, settings |-> settings]

RemarkOf(id) == IF id = 2 THEN RemarkAbsent ELSE "inbound-" \o ToString(id)

\* What the settings of a listed inbound may be.
SettingsVariants ==
    {MalformedSettings,
     Settings(<<>>),
     Settings(<<Client("u-a", "a", TRUE)>>),
     Settings(<<Client("u-b", "b", TRUE), Client("u-a2", "a", FALSE)>>)}

\* The inbound lists the panel may answer with: up to MaxInbounds inbounds.
Listings ==
    UNION {{[i \in 1..n |-> Inbound(i, RemarkOf(i), f[i])] : f \in [1..n -> SettingsVariants]}
           : n \in 0..MaxInbounds}

\* A message of a success=false envelope, as the pieces of its text.
\* MsgAbsent stands for an envelope without a "msg" key.
MsgAbsent == <<"<no msg key>">>
Signal == "Duplicate email"
Whitespace == {" ", "\n"}

\* The panel's duplicate message for the label pieces `x`.
DupMsg(pre, x, suf) == pre \o <<Signal, ": ">> \o x \o suf

\* What may stand before and after the signal, and how the label is written.
Prefixes == {<<>>, <<"Something went wrong!", " ">>}
Suffixes == {<<>>, <<"\n">>}
LabelPieces == {<<x>> : x \in Labels} \cup {<<" ", "b", " ">>}

AddMessages ==
    {DupMsg(pre, x, suf) : pre \in Prefixes, x \in LabelPieces, suf \in Suffixes} \cup
    {<<Signal>>,
     <<Signal, ": ">>,
     <<"Inbound Not Found">>,
     MsgAbsent}

JsonBody(text, val) == [text |-> text, wf |-> TRUE, val |-> val]

TrafficEndpoint(email) == "/panel/api/inbounds/getClientTraffics/" \o email
GetEndpoint(inbound_id) == "/panel/api/inbounds/get/" \o ToString(inbound_id)
UpdateClientEndpoint(uuid) == "/panel/api/inbounds/updateClient/" \o uuid
DelClientEndpoint(inbound_id, uuid) ==
    "/panel/api/inbounds/" \o ToString(inbound_id) \o "/delClient/" \o uuid

\* Inbound ids and credential ids the callers pass.
InboundIds == 1..2
Uuids == {"u-a", "u-b", "u-x"}

\* Answers to get/{id}: an inbound with any settings, no object, a failure.
GetBodies(inbound_id) ==
    {JsonBody("inbound", Envelope(TRUE, <<>>, JObj(Inbound(inbound_id, RemarkOf(inbound_id), st))))
        : st \in SettingsVariants} \cup
    {JsonBody("inbound", Envelope(TRUE, <<>>, JNull)),
     JsonBody("inbound", Envelope(TRUE, <<>>, JAbsent)),
     JsonBody("inbound", Envelope(FALSE, <<"Something went wrong!">>, JNull))}

\* Answers to a write (updateClient, delClient): the bare envelope.
WriteBodies ==
    {JsonBody("ok", Envelope(TRUE, <<>>, JNull)),
     JsonBody("failed", Envelope(FALSE, <<"Something went wrong!">>, JNull)),
     JsonBody("failed", Envelope(FALSE, MsgAbsent, JNull))}

\* A traffic record: a dict whose "up" and "down" keys may be missing (<<>>)
\* and that may hold other keys.
TrafficRecord(up, down, others) == [up |-> up, down |-> down, others |-> others]

Counters == {<<>>, <<0>>, <<3>>}

TrafficRecords ==
    {TrafficRecord(u, dn, TRUE) : u \in Counters, dn \in Counters} \cup
    {TrafficRecord(<<>>, <<>>, FALSE), TrafficRecord(<<3>>, <<0>>, FALSE)}

TrafficBodies ==
    {JsonBody("traffic", Envelope(TRUE, <<>>, JObj(t))) : t \in TrafficRecords} \cup
    {JsonBody("traffic", Envelope(TRUE, <<>>, JNull)),
     JsonBody("traffic", Envelope(TRUE, <<>>, JAbsent)),
     JsonBody("traffic", Envelope(FALSE, <<"Something went wrong!">>, JNull)),
     JsonBody("traffic", Envelope(FALSE, <<"Something went wrong!">>,
                                  JObj(TrafficRecord(<<3>>, <<3>>, TRUE))))}

ListBodies ==
    {JsonBody("inbounds", Envelope(TRUE, <<>>, JList(l))) : l \in Listings} \cup
    {JsonBody("inbounds", Envelope(TRUE, <<>>, JNull)),
     JsonBody("inbounds", Envelope(TRUE, <<>>, JAbsent)),
     JsonBody("inbounds", Envelope(FALSE, <<"Something went wrong!">>, JNull))}

AddClientBodies ==
    {JsonBody("added", Envelope(TRUE, <<"Client(s) added">>, JNull))} \cup
    {JsonBody("not added", Envelope(FALSE, m, JNull)) : m \in AddMessages}

-----------------------------------------------------------------------------
(* The panel as the client sees it: any answer to any request *)

Statuses == {200, 401, 500}

\* Transport failures an exchange may end with: one of each handler of login().
ExchangeFailures == {HttpFailure(e) : e \in {"ConnectError", "ReadTimeout", "ReadError"}}

BodyOk == [text |-> "{success: true}", wf |-> TRUE, val |-> Envelope(TRUE, <<>>, JNull)]
BodyHtml == [text |-> "<html>502</html>", wf |-> FALSE, val |-> NoVal]

\* Bodies the panel may answer a request to `url` with under status 200.
Bodies(url) ==
    CASE url = base_url \o ListEndpoint -> ListBodies \cup {BodyHtml}
      [] url = base_url \o AddClientEndpoint -> AddClientBodies \cup {BodyHtml}
      [] \E e \in Labels : url = base_url \o TrafficEndpoint(e) -> TrafficBodies \cup {BodyHtml}
      [] \E i \in InboundIds : url = base_url \o GetEndpoint(i) ->
             GetBodies(CHOOSE i \in InboundIds : url = base_url \o GetEndpoint(i)) \cup {BodyHtml}
      [] \E u \in Uuids : url = base_url \o UpdateClientEndpoint(u) -> WriteBodies \cup {BodyHtml}
      [] \E i \in InboundIds, u \in Uuids \cup {"u-a2"} : url = base_url \o DelClientEndpoint(i, u) ->
             WriteBodies \cup {BodyHtml}
      [] OTHER -> {BodyOk, BodyHtml}

\* What an exchange of the executor may end with: a transport failure, or a
\* response of any status with any body (an error status with either body).
Answers(req) ==
    {HttpFailure(e) : e \in {"ConnectError", "ReadTimeout"}} \cup
    {HttpResponse(200, b.text, b.wf, b.val, <<>>) : b \in Bodies(req.url)} \cup
    {HttpResponse(401, BodyHtml.text, FALSE, NoVal, <<>>),
     HttpResponse(500, BodyHtml.text, FALSE, NoVal, <<>>),
     HttpResponse(500, BodyOk.text, TRUE, BodyOk.val, <<>>)}

SessionCookies == {<<"3x-ui", "s1">>, <<"3x-ui", "s2">>}
OtherCookie == <<"lang", "en">>

\* Cookie sets a login response may carry.
CookieJars ==
    {<<>>, <<OtherCookie>>} \cup {<<c>> : c \in SessionCookies}
        \cup (IF MaxCookies >= 2 THEN {<<<<"3x-ui", "s1">>, OtherCookie>>} ELSE {})
        \cup (IF MaxCookies >= 3
              THEN {<<<<"3x-ui", "s1">>, OtherCookie, <<"theme", "dark">>>>}
              ELSE {})

\* What the login exchange may end with: a transport failure, a 200 with any
\* cookie set, another status (with or without cookies).
LoginAnswers ==
    ExchangeFailures \cup
    {HttpResponse(200, "{success: true}", TRUE, NoVal, jar) : jar \in CookieJars} \cup
    {HttpResponse(500, "error", FALSE, NoVal, <<>>),
     HttpResponse(401, "error", FALSE, NoVal, <<<<"3x-ui", "s1">>>>)}

-----------------------------------------------------------------------------
(* The state machine of one client instance *)

Idle == [name |-> "idle", phase |-> "idle"]

\* No public operation is in progress.
OpIdle == op.phase \in {"idle", "done"}

\* XUIClient() (lines 20-25): a new instance holds no client and no session.
NewInstance ==
    /\ client = "None"
    /\ session_cookie = NoneVal
    /\ pc = "new"
    /\ frame = NoFrame
    /\ wire = <<>>
    /\ frame0 = 0
    /\ answers = <<>>
    /\ outcome = NoOutcome
    /\ log = <<>>
    /\ ncalls = 0
    /\ op = Idle
    /\ result = NoOutcome

NoPrev == [name |-> "none", ok |-> FALSE]

Init ==
    /\ NewInstance
    /\ panel = <<>>
    /\ before = <<>>
    /\ prev = NoPrev
    /\ peer = [phase |-> "none"]
    /\ link = [phase |-> "none"]
    /\ bot = [phase |-> "none"]

\* __aenter__ (lines 27-35) up to its await of login(): the AsyncClient is
\* created and login() posts the credentials.
AEnter ==
    /\ pc = "new"
    /\ client' = "open"
    /\ pc' = "aenter"
    /\ wire' = <<LoginRequest>>
    /\ frame0' = 0
    /\ answers' = <<>>
    /\ outcome' = NoOutcome
    /\ log' = Logged(log, <<LogRec("info", "Authenticating with 3x-ui panel...", "")>>)
    /\ UNCHANGED <<session_cookie, frame, ncalls, op, result>>
    /\ UNCHANGED world

\* An __aenter__ that swallows the login error and lets the body run.
AEnterOnLoginError_Swallowed == "body"

\* What __aenter__ does when login() has raised (line 34 has no handler).
AEnterOnLoginError == "failed"

\* The rest of __aenter__: login() gets its answer; when it raises, __aenter__
\* raises, the `async with` body never runs and __aexit__ is not called; when
\* it returns, __aenter__ returns self (the True of login() is dropped).
AEnterLogin ==
    /\ pc = "aenter"
    /\ \E r \in LoginAnswers :
         LET res == login(session_cookie, r)
         IN  /\ session_cookie' = res.session_cookie
             /\ outcome' = IF res.outcome.kind = "raise" THEN res.outcome ELSE NoOutcome
             /\ log' = Logged(log, res.logs)
             /\ answers' = OnWire(answers, r)
             /\ pc' = IF res.outcome.kind = "raise" THEN AEnterOnLoginError ELSE "body"
    /\ UNCHANGED <<client, frame, wire, frame0, ncalls, op, result>>
    /\ UNCHANGED world

\* A call of _make_request(method, endpoint, data) up to its first await,
\* made while the instance is at `at`, `w` being the requests the current
\* operation has already made and `logs` what it logs before the call.
MakeRequest(f, at, w, logs) ==
    LET b == BeginRequest(client, session_cookie, f)
    IN  /\ frame0' = Len(w)
        /\ answers' = <<>>
        /\ IF b.act = "raise"
           THEN /\ outcome' = Raise(b.err)
                /\ pc' = at
                /\ frame' = NoFrame
                /\ wire' = w
           ELSE /\ outcome' = NoOutcome
                /\ pc' = "await"
                /\ frame' = f
                /\ wire' = OnWire(w, b.req)
        /\ log' = Logged(log, logs)
        /\ UNCHANGED <<client, session_cookie>>

\* The executor calls the model makes directly.
Calls ==
    {<<"GET", TrafficEndpoint("a"), NoneVal>>,
     <<"post", DelClientEndpoint(1, "u-a"), "{}">>,
     <<"PUT", DelClientEndpoint(1, "u-a"), "{}">>}

\* Inside the `async with` body: one executor call.
Call ==
    /\ pc = "body"
    /\ OpIdle
    /\ ncalls < MaxCalls
    /\ ncalls' = ncalls + 1
    /\ \E c \in Calls : MakeRequest(Frame(c[1], c[2], c[3], TRUE), "body", <<>>, <<>>)
    /\ UNCHANGED <<op, result>>
    /\ UNCHANGED world

\* _make_request on an instance that never entered its context manager.
CallUnentered ==
    /\ pc = "new"
    /\ ncalls < MaxCalls
    /\ ncalls' = ncalls + 1
    /\ \E c \in Calls : MakeRequest(Frame(c[1], c[2], c[3], TRUE), "new", <<>>, <<>>)
    /\ UNCHANGED <<op, result>>
    /\ UNCHANGED world

\* Lines 69-90 on the outcome `r` of the awaited exchange.
Responded(r) ==
    LET h == HandleResponse(frame, r)
    IN  /\ answers' = OnWire(answers, r)
        /\ log' = Logged(log, h.logs)
        /\ CASE h.act = "relogin" ->
                  /\ pc' = "relogin"
                  /\ wire' = OnWire(wire, LoginRequest)
                  /\ outcome' = NoOutcome
                  /\ frame' = frame
             [] h.act = "raise" ->
                  /\ pc' = "body"
                  /\ outcome' = Raise(h.err)
                  /\ frame' = NoFrame
                  /\ wire' = wire
             [] h.act = "return" ->
                  /\ pc' = "body"
                  /\ outcome' = Return(h.val)
                  /\ frame' = NoFrame
                  /\ wire' = wire
        /\ UNCHANGED <<client, session_cookie, frame0, ncalls, op, result>>

\* The awaited exchange of _make_request ends (lines 69-90), the panel
\* answering anything.
Respond ==
    /\ pc = "await"
    /\ \E r \in Answers(wire[Len(wire)]) : Responded(r)
    /\ UNCHANGED world

\* Lines 75-76: the awaited login() of the retry ends; when it returns, the
\* call is made again with retry_on_auth_error=False; when it raises, the
\* error leaves _make_request (no handler of lines 85-90 matches it).
ReLogin ==
    /\ pc = "relogin"
    /\ \E r \in LoginAnswers :
         LET res == login(session_cookie, r)
             f2 == Frame(frame.method, frame.endpoint, frame.data, RetryFlagOfRetry)
             b == BeginRequest(client, res.session_cookie, f2)
         IN  /\ session_cookie' = res.session_cookie
             /\ log' = Logged(log, res.logs)
             /\ answers' = OnWire(answers, r)
             /\ IF res.outcome.kind = "raise"
                THEN /\ pc' = "body"
                     /\ outcome' = res.outcome
                     /\ frame' = NoFrame
                     /\ wire' = wire
                ELSE /\ pc' = "await"
                     /\ outcome' = NoOutcome
                     /\ frame' = f2
                     /\ wire' = OnWire(wire, b.req)
    /\ UNCHANGED <<client, frame0, ncalls, op, result>>
    /\ UNCHANGED world

\* __aexit__ (lines 37-40), run when the `async with` body ends or raises.
AExit ==
    /\ pc = "body"
    /\ OpIdle
    /\ client' = IF client = "open" THEN "closed" ELSE client
    /\ pc' = "exited"
    /\ UNCHANGED <<session_cookie, frame, wire, frame0, answers, outcome, log, ncalls, op,
                   result>>
    /\ UNCHANGED world

-----------------------------------------------------------------------------
(* Client Lifecycle Operations *)

\* get_inbound_list (lines 312-320) on the decoded answer: result.get("obj", [])
\* when "success" is true, [] otherwise.
get_inbound_list(val) ==
    IF val.success
    THEN (IF val.obj.kind = "absent" THEN JList(<<>>) ELSE val.obj)
    ELSE JList(<<>>)

\* inbound.get("remark", "Unknown") (line 341)
RemarkOrUnknown(inbound) == IF inbound.remark = RemarkAbsent THEN "Unknown" ELSE inbound.remark

NotFound == [found |-> FALSE, inbound_id |-> 0, inbound_remark |-> "", client |-> Client("", "", FALSE)]

Found(inbound, c) ==
    [found |-> TRUE, inbound_id |-> inbound.id, inbound_remark |-> RemarkOrUnknown(inbound),
     client |-> c]

\* Lines 336-343: the first client of `clients`, from position j on, whose
\* email is `email` (0: none).
RECURSIVE FirstWithEmail(_, _, _)
FirstWithEmail(clients, email, j) ==
    IF j > Len(clients) THEN 0
    ELSE IF clients[j].email = email THEN j
    ELSE FirstWithEmail(clients, email, j + 1)

\* A scan that looks at the first inbound only.
RECURSIVE ScanInbounds_FirstOnly(_, _, _)
ScanInbounds_FirstOnly(inbounds, email, i) ==
    IF i > Len(inbounds) \/ i > 1 THEN NotFound
    ELSE IF ~inbounds[i].settings.wf THEN NotFound
    ELSE LET j == FirstWithEmail(inbounds[i].settings.clients, email, 1)
         IN  IF j > 0 THEN Found(inbounds[i], inbounds[i].settings.clients[j]) ELSE NotFound

\* A scan that keeps the last inbound holding the label.
RECURSIVE ScanInbounds_LastMatch(_, _, _)
ScanInbounds_LastMatch(inbounds, email, i) ==
    IF i > Len(inbounds) THEN NotFound
    ELSE LET rest == ScanInbounds_LastMatch(inbounds, email, i + 1)
             j == IF inbounds[i].settings.wf
                  THEN FirstWithEmail(inbounds[i].settings.clients, email, 1)
                  ELSE 0
         IN  IF rest.found THEN rest
             ELSE IF j > 0 THEN Found(inbounds[i], inbounds[i].settings.clients[j])
             ELSE NotFound

\* A scan that gives up at an inbound whose settings do not decode.
RECURSIVE ScanInbounds_StopAtMalformed(_, _, _)
ScanInbounds_StopAtMalformed(inbounds, email, i) ==
    IF i > Len(inbounds) THEN NotFound
    ELSE IF ~inbounds[i].settings.wf THEN NotFound
    ELSE LET j == FirstWithEmail(inbounds[i].settings.clients, email, 1)
         IN  IF j > 0
             THEN Found(inbounds[i], inbounds[i].settings.clients[j])
             ELSE ScanInbounds_StopAtMalformed(inbounds, email, i + 1)

\* Lines 328-348: the loop of find_client_in_all_inbounds over inbounds[i..];
\* an inbound whose settings do not decode is skipped (lines 344-345).
RECURSIVE ScanInbounds(_, _, _)
ScanInbounds(inbounds, email, i) ==
    IF i > Len(inbounds) THEN NotFound
    ELSE IF ~inbounds[i].settings.wf THEN ScanInbounds(inbounds, email, i + 1)
    ELSE LET j == FirstWithEmail(inbounds[i].settings.clients, email, 1)
         IN  IF j > 0
             THEN Found(inbounds[i], inbounds[i].settings.clients[j])
             ELSE ScanInbounds(inbounds, email, i + 1)

\* find_client_in_all_inbounds (lines 322-348) on what get_inbound_list gave:
\* iterating None (an "obj": null answer) raises TypeError.
find_client_in_all_inbounds(lst, email) ==
    IF lst.kind = "null"
    THEN Raise(Exc("TypeError", "'NoneType' object is not iterable", <<>>))
    ELSE Return(ScanInbounds(lst.items, email, 1))

\* Line 175 (the message is in Russian in the source: a client of this name
\* already exists in inbound '{}', ask the user to choose another name).
PrecheckDuplicateError(inbound_remark) ==
    XUIClientError("A client with this name already exists in inbound '{}'. Ask the user to choose another name.",
                   <<inbound_remark>>)

\* A provider-duplicate error that names the requested label.
ProviderDuplicateError_Requested(email, duplicate_email) ==
    XUIClientError("A client with email '{}' already exists in 3x-ui. Delete it through the 3x-ui panel.",
                   <<email>>)

\* Line 219 (the message is in Russian in the source: a client with email '{}'
\* already exists in 3x-ui, delete it through the 3x-ui panel).
ProviderDuplicateError(email, duplicate_email) ==
    XUIClientError("A client with email '{}' already exists in 3x-ui. Delete it through the 3x-ui panel.",
                   <<duplicate_email>>)

\* result.get('msg', 'Unknown error') (line 208)
MsgOrUnknown(val) == IF val.msg = MsgAbsent THEN <<"Unknown error">> ELSE val.msg

\* The text of a message: its pieces put together.
RECURSIVE Text(_)
Text(m) == IF Len(m) = 0 THEN "" ELSE m[1] \o Text(Tail(m))

\* "Duplicate email" in error_msg (line 212)
HasSignal(m) == \E i \in 1..Len(m) : m[i] = Signal

\* re.search(r'Duplicate email: (.+)', error_msg) (line 215): where the
\* leftmost match starts (0: no match).  The group needs one character that
\* is not a line break.
MatchAt(m) ==
    LET hits == {i \in 1..Len(m) : /\ m[i] = Signal
                                   /\ i + 2 <= Len(m)
                                   /\ m[i + 1] = ": "
                                   /\ m[i + 2] # "\n"}
    IN  IF hits = {} THEN 0 ELSE CHOOSE i \in hits : \A k \in hits : i <= k

\* match.group(1): the pieces after ": " up to the end of the line.
RECURSIVE UpToLineEnd(_)
UpToLineEnd(m) ==
    IF Len(m) = 0 \/ m[1] = "\n" THEN <<>> ELSE <<m[1]>> \o UpToLineEnd(Tail(m))

\* str.strip(): leading and trailing whitespace removed.
RECURSIVE Strip(_)
Strip(m) ==
    IF Len(m) = 0 THEN m
    ELSE IF m[1] \in Whitespace THEN Strip(Tail(m))
    ELSE IF m[Len(m)] \in Whitespace THEN Strip(SubSeq(m, 1, Len(m) - 1))
    ELSE m

\* match.group(1).strip() (line 217)
DuplicateEmailOf(m) == Text(Strip(UpToLineEnd(SubSeq(m, MatchAt(m) + 2, Len(m)))))

\* The addClient payload (lines 178-196); "settings" is json.dumps of the
\* one-client dict.
AddClientData(email, uuid, inbound_id, enable) ==
    [id |-> inbound_id,
     settings |-> [wf |-> TRUE,
                   clients |-> <<[id |-> uuid, email |-> email, enable |-> enable,
                                  flow |-> "", limitIp |-> 0, totalGB |-> 0, expiryTime |-> 0,
                                  tgId |-> "", subId |-> "", reset |-> 0]>>]]

\* Lines 204-221: what create_client makes of the decoded addClient answer.
CreateClientResult(email, val) ==
    IF val.success
    THEN Return(Envelope(TRUE, <<>>, JNull))
    ELSE LET error_msg == MsgOrUnknown(val)
         IN  IF HasSignal(error_msg) /\ MatchAt(error_msg) > 0
             THEN Raise(ProviderDuplicateError(email, DuplicateEmailOf(error_msg)))
             ELSE Raise(XUIClientError("Failed to create client: {}", <<Text(error_msg)>>))

\* The public operation ends: its caller gets `res`.
EndOp(res, locals) ==
    /\ result' = res
    /\ op' = [locals EXCEPT !.phase = "done"]

\* The only operation of a scoped session starts, as in the handlers
\* (one operation per `async with XUIClient()`).
OnlyOp ==
    /\ pc = "body"
    /\ OpIdle
    /\ ncalls = 0
    /\ ncalls' = 1
    /\ UNCHANGED world

\* create_client (lines 160-171) up to the await of the inbound list.
CreateClientStart(email, uuid, inbound_id, enable) ==
    /\ result' = NoOutcome
    /\ op' = [name |-> "create_client", phase |-> "scan", email |-> email,
              uuid |-> uuid, inbound_id |-> inbound_id, enable |-> enable,
              inbounds |-> JNull]
    /\ MakeRequest(Frame("GET", ListEndpoint, NoneVal, TRUE), "body", <<>>,
                   <<LogRec("info", "Creating client", ""), LogRec("info", "Getting inbound list", "")>>)

CreateClient ==
    /\ OnlyOp
    /\ \E email \in Labels, inbound_id \in InboundIds :
         CreateClientStart(email, "u-" \o email, inbound_id, TRUE)

\* create_client (lines 171-202): the list is in (or its call raised); the
\* scan decides between the duplicate error and the addClient request.
CreateClientScanned ==
    /\ pc = "body"
    /\ op.name = "create_client"
    /\ op.phase = "scan"
    /\ outcome.kind # "none"
    /\ ncalls' = ncalls
    /\ UNCHANGED world
    /\ IF outcome.kind = "raise"
       THEN /\ EndOp(outcome, op)
            /\ UNCHANGED <<client, session_cookie, pc, frame, wire, frame0, answers, outcome, log>>
       ELSE LET lst == get_inbound_list(outcome.val)
                existing_client == find_client_in_all_inbounds(lst, op.email)
                locals == [op EXCEPT !.inbounds = lst]
            IN  IF existing_client.kind = "raise"
                THEN /\ EndOp(existing_client, locals)
                     /\ UNCHANGED <<client, session_cookie, pc, frame, wire, frame0, answers,
                                    outcome, log>>
                ELSE IF existing_client.val.found
                THEN /\ EndOp(Raise(PrecheckDuplicateError(existing_client.val.inbound_remark)),
                              locals)
                     /\ log' = Logged(log, <<LogRec("warning", "Client already exists in inbound",
                                                    existing_client.val.inbound_remark)>>)
                     /\ UNCHANGED <<client, session_cookie, pc, frame, wire, frame0, answers,
                                    outcome>>
                ELSE /\ op' = [locals EXCEPT !.phase = "add"]
                     /\ result' = result
                     /\ MakeRequest(Frame("POST", AddClientEndpoint,
                                          AddClientData(op.email, op.uuid, op.inbound_id, op.enable),
                                          TRUE),
                                    "body", wire,
                                    <<LogRec("info", "Sending addClient request", op.email)>>)

\* create_client (lines 202-221): the addClient call is over.
CreateClientAdded ==
    /\ pc = "body"
    /\ op.name = "create_client"
    /\ op.phase = "add"
    /\ outcome.kind # "none"
    /\ IF outcome.kind = "raise"
       THEN /\ EndOp(outcome, op)
            /\ log' = log
       ELSE /\ EndOp(CreateClientResult(op.email, outcome.val), op)
            /\ log' = Logged(log, <<IF outcome.val.success
                                    THEN LogRec("info", "Successfully created client", op.email)
                                    ELSE LogRec("error", "Failed to create client", op.email)>>)
    /\ UNCHANGED <<client, session_cookie, pc, frame, wire, frame0, answers, outcome, ncalls>>
    /\ UNCHANGED world

\* `if obj:` on a decoded "obj" (line 229): null, a missing key, an empty list
\* and an empty dict are false.
Truthy(obj) ==
    CASE obj.kind = "obj" ->
             obj.items[1].up # <<>> \/ obj.items[1].down # <<>> \/ obj.items[1].others
      [] obj.kind = "list" -> obj.items # <<>>
      [] OTHER -> FALSE

\* obj.get(key, 0) for a counter that may be missing
GetOr0(counter) == IF counter = <<>> THEN 0 ELSE counter[1]

Traffic(up, down, total) == [up |-> up, down |-> down, total |-> total]

\* A sample whose total forgets the download counter.
TrafficOf_UploadOnly(obj) == Traffic(GetOr0(obj.up), GetOr0(obj.down), GetOr0(obj.up))

\* Lines 231-235: the sample built from the record.
TrafficOf(obj) ==
    Traffic(GetOr0(obj.up), GetOr0(obj.down), GetOr0(obj.up) + GetOr0(obj.down))

\* Lines 229-240: get_client_traffic on the decoded answer.
get_client_traffic(val) ==
    IF val.success /\ Truthy(val.obj)
    THEN Return(TrafficOf(val.obj.items[1]))
    ELSE Return(Traffic(0, 0, 0))

\* get_client_traffic (lines 223-227) up to the await of the panel.
GetClientTraffic ==
    /\ OnlyOp
    /\ result' = NoOutcome
    /\ \E email \in Labels :
         /\ op' = [name |-> "get_client_traffic", phase |-> "fetch", email |-> email]
         /\ MakeRequest(Frame("GET", TrafficEndpoint(email), NoneVal, TRUE), "body", <<>>,
                        <<LogRec("info", "Getting traffic stats for client", email)>>)

\* get_client_traffic (lines 227-240): the call is over.
GetClientTrafficFetched ==
    /\ pc = "body"
    /\ op.name = "get_client_traffic"
    /\ op.phase = "fetch"
    /\ outcome.kind # "none"
    /\ IF outcome.kind = "raise"
       THEN /\ EndOp(outcome, op)
            /\ log' = log
       ELSE /\ EndOp(get_client_traffic(outcome.val), op)
            /\ log' = Logged(log, <<IF outcome.val.success /\ Truthy(outcome.val.obj)
                                    THEN LogRec("info", "Traffic for", op.email)
                                    ELSE LogRec("warning", "No traffic data found for", op.email)>>)
    /\ UNCHANGED <<client, session_cookie, pc, frame, wire, frame0, answers, outcome, ncalls>>
    /\ UNCHANGED world

\* A lookup that takes any entry of the inbound for the client.
MatchesClient_Any(c, email, uuid) == TRUE

\* Line 267: the entry is the client by its label or by its credential id.
MatchesClient(c, email, uuid) == c.email = email \/ c.id = uuid

ClientNotFoundError(email) == XUIClientError("Client not found: {}", <<email>>)

\* Lines 255-273: update_client_status on the decoded answer of get_inbound:
\* it raises, or it goes on to the update.  `obj` of None has no .get (line
\* 259) and json.loads (line 260) is not inside a try.
update_client_lookup(val, email, uuid) ==
    IF ~val.success
    THEN Raise(XUIClientError("Failed to get inbound configuration", <<>>))
    ELSE IF val.obj.kind # "obj"
    THEN Raise(Exc("AttributeError", "'NoneType' object has no attribute 'get'", <<>>))
    ELSE IF ~val.obj.items[1].settings.wf
    THEN Raise(Exc("JSONDecodeError", "Expecting value", <<>>))
    ELSE LET clients == val.obj.items[1].settings.clients
         IN  IF \E j \in 1..Len(clients) : MatchesClient(clients[j], email, uuid)
             THEN Return(Envelope(TRUE, <<>>, JNull))
             ELSE Raise(ClientNotFoundError(email))

\* An update that always asks for the client to be enabled.
UpdateClientData_AlwaysEnable(uuid, inbound_id, enable) ==
    [id |-> uuid, inboundId |-> inbound_id, enable |-> TRUE]

\* Lines 276-280: the updateClient payload.
UpdateClientData(uuid, inbound_id, enable) ==
    [id |-> uuid, inboundId |-> inbound_id, enable |-> enable]

\* A write operation that does not look at the "success" flag of its answer.
WriteResult_IgnoresFlag(what, val) == Return(Envelope(TRUE, <<>>, JNull))

\* Lines 284-289 (and 305-310): what a write operation makes of its answer.
WriteResult(what, val) ==
    IF val.success
    THEN Return(Envelope(TRUE, <<>>, JNull))
    ELSE Raise(XUIClientError("Failed to " \o what \o " client: {}", <<Text(MsgOrUnknown(val))>>))

\* update_client_status (lines 242-253) up to the await of get_inbound.
UpdateClientStatusStart(email, uuid, inbound_id, enable) ==
    /\ result' = NoOutcome
    /\ op' = [name |-> "update_client_status", phase |-> "fetch", email |-> email,
              uuid |-> uuid, inbound_id |-> inbound_id, enable |-> enable,
              inbound_data |-> NoVal]
    /\ MakeRequest(Frame("GET", GetEndpoint(inbound_id), NoneVal, TRUE), "body", <<>>,
                   <<LogRec("info", "Updating client status", email),
                     LogRec("info", "Getting inbound configuration", ToString(inbound_id))>>)

UpdateClientStatus ==
    /\ OnlyOp
    /\ \E email \in Labels, uuid \in Uuids, inbound_id \in InboundIds, enable \in BOOLEAN :
         UpdateClientStatusStart(email, uuid, inbound_id, enable)

\* update_client_status (lines 253-282): the inbound is in (or its call
\* raised); the client is looked up and the update is sent.
UpdateClientStatusFetched ==
    /\ pc = "body"
    /\ op.name = "update_client_status"
    /\ op.phase = "fetch"
    /\ outcome.kind # "none"
    /\ ncalls' = ncalls
    /\ UNCHANGED world
    /\ IF outcome.kind = "raise"
       THEN /\ EndOp(outcome, op)
            /\ UNCHANGED <<client, session_cookie, pc, frame, wire, frame0, answers, outcome, log>>
       ELSE LET looked == update_client_lookup(outcome.val, op.email, op.uuid)
                locals == [op EXCEPT !.inbound_data = outcome.val]
            IN  IF looked.kind = "raise"
                THEN /\ EndOp(looked, locals)
                     /\ UNCHANGED <<client, session_cookie, pc, frame, wire, frame0, answers,
                                    outcome, log>>
                ELSE /\ op' = [locals EXCEPT !.phase = "update"]
                     /\ result' = result
                     /\ MakeRequest(Frame("POST", UpdateClientEndpoint(op.uuid),
                                          UpdateClientData(op.uuid, op.inbound_id, op.enable),
                                          TRUE),
                                    "body", wire, <<>>)

\* update_client_status (lines 282-289): the updateClient call is over.
UpdateClientStatusUpdated ==
    /\ pc = "body"
    /\ op.name = "update_client_status"
    /\ op.phase = "update"
    /\ outcome.kind # "none"
    /\ IF outcome.kind = "raise"
       THEN /\ EndOp(outcome, op)
            /\ log' = log
       ELSE /\ EndOp(WriteResult("update", outcome.val), op)
            /\ log' = Logged(log, <<IF outcome.val.success
                                    THEN LogRec("info", "Successfully updated client status", op.email)
                                    ELSE LogRec("error", "Failed to update client", op.email)>>)
    /\ UNCHANGED <<client, session_cookie, pc, frame, wire, frame0, answers, outcome, ncalls>>
    /\ UNCHANGED world

\* delete_client (lines 291-303) up to the await of the panel.
DeleteClientStart(uuid, inbound_id) ==
    /\ result' = NoOutcome
    /\ op' = [name |-> "delete_client", phase |-> "delete", uuid |-> uuid,
              inbound_id |-> inbound_id]
    /\ MakeRequest(Frame("POST", DelClientEndpoint(inbound_id, uuid), "{}", TRUE), "body", <<>>,
                   <<LogRec("info", "Deleting client", uuid)>>)

DeleteClient ==
    /\ OnlyOp
    /\ \E uuid \in Uuids, inbound_id \in InboundIds : DeleteClientStart(uuid, inbound_id)

\* delete_client (lines 299-310): the delClient call is over.
DeleteClientDeleted ==
    /\ pc = "body"
    /\ op.name = "delete_client"
    /\ op.phase = "delete"
    /\ outcome.kind # "none"
    /\ IF outcome.kind = "raise"
       THEN /\ EndOp(outcome, op)
            /\ log' = log
       ELSE /\ EndOp(WriteResult("delete", outcome.val), op)
            /\ log' = Logged(log, <<IF outcome.val.success
                                    THEN LogRec("info", "Successfully deleted client", op.uuid)
                                    ELSE LogRec("error", "Failed to delete client", op.uuid)>>)
    /\ UNCHANGED <<client, session_cookie, pc, frame, wire, frame0, answers, outcome, ncalls>>
    /\ UNCHANGED world

\* delete_client_from_all_inbounds (lines 350-354) up to the await of the list.
DeleteFromAllStart(email) ==
    /\ result' = NoOutcome
    /\ op' = [name |-> "delete_client_from_all_inbounds", phase |-> "scan", email |-> email,
              inbounds |-> JNull, client_info |-> NotFound]
    /\ MakeRequest(Frame("GET", ListEndpoint, NoneVal, TRUE), "body", <<>>,
                   <<LogRec("info", "Attempting to delete client from all inbounds", email)>>)

DeleteFromAll ==
    /\ OnlyOp
    /\ \E email \in Labels : DeleteFromAllStart(email)

\* delete_client_from_all_inbounds (lines 354-364): the scan is over (an
\* error of it leaves the operation: it is outside the try of line 363);
\* when it found the label, delete_client is called for that one entry.
DeleteFromAllScanned ==
    /\ pc = "body"
    /\ op.name = "delete_client_from_all_inbounds"
    /\ op.phase = "scan"
    /\ outcome.kind # "none"
    /\ ncalls' = ncalls
    /\ UNCHANGED world
    /\ IF outcome.kind = "raise"
       THEN /\ EndOp(outcome, op)
            /\ UNCHANGED <<client, session_cookie, pc, frame, wire, frame0, answers, outcome, log>>
       ELSE LET lst == get_inbound_list(outcome.val)
                client_info == find_client_in_all_inbounds(lst, op.email)
                locals == [op EXCEPT !.inbounds = lst]
            IN  IF client_info.kind = "raise"
                THEN /\ EndOp(client_info, locals)
                     /\ UNCHANGED <<client, session_cookie, pc, frame, wire, frame0, answers,
                                    outcome, log>>
                ELSE IF ~client_info.val.found
                THEN /\ EndOp(Return(Envelope(FALSE, <<>>, JNull)), locals)
                     /\ log' = Logged(log, <<LogRec("warning", "Client not found in any inbound",
                                                    op.email)>>)
                     /\ UNCHANGED <<client, session_cookie, pc, frame, wire, frame0, answers,
                                    outcome>>
                ELSE /\ op' = [locals EXCEPT !.phase = "delete", !.client_info = client_info.val]
                     /\ result' = result
                     /\ MakeRequest(Frame("POST",
                                          DelClientEndpoint(client_info.val.inbound_id,
                                                            client_info.val.client.id),
                                          "{}", TRUE),
                                    "body", wire,
                                    <<LogRec("info", "Deleting client", client_info.val.client.id)>>)

\* delete_client_from_all_inbounds (lines 363-369): delete_client is over;
\* whatever it raised is logged and turned into False.
DeleteFromAllDeleted ==
    /\ pc = "body"
    /\ op.name = "delete_client_from_all_inbounds"
    /\ op.phase = "delete"
    /\ outcome.kind # "none"
    /\ LET deleted == IF outcome.kind = "raise" THEN outcome
                      ELSE WriteResult("delete", outcome.val)
       IN  /\ EndOp(IF deleted.kind = "raise" THEN Return(Envelope(FALSE, <<>>, JNull)) ELSE Return(Envelope(TRUE, <<>>, JNull)), op)
           /\ log' = Logged(log, <<IF deleted.kind = "raise"
                                   THEN LogRec("error", "Failed to delete client", op.email)
                                   ELSE LogRec("info", "Successfully deleted client", op.email)>>)
    /\ UNCHANGED <<client, session_cookie, pc, frame, wire, frame0, answers, outcome, ncalls>>
    /\ UNCHANGED world

\* find_client_in_all_inbounds (lines 322-326) up to the await of the list.
FindClient ==
    /\ OnlyOp
    /\ result' = NoOutcome
    /\ \E email \in Labels :
         op' = [name |-> "find_client_in_all_inbounds", phase |-> "scan", email |-> email,
                inbounds |-> JNull]
    /\ MakeRequest(Frame("GET", ListEndpoint, NoneVal, TRUE), "body", <<>>,
                   <<LogRec("info", "Searching for client with email", ""),
                     LogRec("info", "Getting inbound list", "")>>)

\* find_client_in_all_inbounds (lines 326-348): the list is in (or its call
\* raised) and the scan runs.
FindClientScanned ==
    /\ pc = "body"
    /\ op.name = "find_client_in_all_inbounds"
    /\ op.phase = "scan"
    /\ outcome.kind # "none"
    /\ IF outcome.kind = "raise"
       THEN /\ EndOp(outcome, op)
            /\ log' = log
       ELSE LET lst == get_inbound_list(outcome.val)
                found == find_client_in_all_inbounds(lst, op.email)
            IN  /\ EndOp(found, [op EXCEPT !.inbounds = lst])
                /\ log' = IF found.kind = "raise"
                          THEN log
                          ELSE Logged(log, <<IF found.val.found
                                             THEN LogRec("info", "Found client in inbound",
                                                         ToString(found.val.inbound_id))
                                             ELSE LogRec("info", "Client not found in any inbound",
                                                         op.email)>>)
    /\ UNCHANGED <<client, session_cookie, pc, frame, wire, frame0, answers, outcome, ncalls>>
    /\ UNCHANGED world

-----------------------------------------------------------------------------
(* Link Generator: get_client_link and the protocol builders.

   A text that is percent-encoded is kept as the sequence of its pieces: the
   characters " ", "%", "/", ":", "," and a non-ASCII letter (written "U+00E9") are pieces of
   their own, a run of unreserved characters is one piece, and an escape
   %XX is the piece "%" followed by the piece "XX".  A dict key that may be
   missing is <<>> (missing) or <<v>> (present). *)

\* d.get(key, default)
GetOr(opt, default) == IF opt = <<>> THEN default ELSE opt[1]

\* urllib.parse.quote(s, safe) and, with plus, quote_plus(s, safe): the
\* unreserved pieces and those of `safe` stay, every other piece becomes the
\* escapes of its UTF-8 bytes (quote_plus writes "+" for a space).
RECURSIVE quote(_, _, _)
quote(s, safe, plus) ==
    IF Len(s) = 0 THEN <<>>
    ELSE (CASE s[1] \in safe -> <<s[1]>>
            [] s[1] = " " -> IF plus THEN <<"+">> ELSE <<"%", "20">>
            [] s[1] = "%" -> <<"%", "25">>
            [] s[1] = "/" -> <<"%", "2F">>
            [] s[1] = ":" -> <<"%", "3A">>
            [] s[1] = "," -> <<"%", "2C">>
            [] s[1] = "+" -> <<"%", "2B">>
            [] s[1] = "U+00E9" -> <<"%", "C3", "%", "A9">>
            [] OTHER -> <<s[1]>>) \o quote(Tail(s), safe, plus)

\* sep.join(items)
RECURSIVE Join(_, _)
Join(items, sep) ==
    IF Len(items) = 0 THEN <<>>
    ELSE IF Len(items) = 1 THEN items[1]
    ELSE items[1] \o <<sep>> \o Join(Tail(items), sep)

\* Lines 481-484 (and 581-583, 629-631): the inbound's listen address, or,
\* when that is "0.0.0.0" or empty, what is left of base_url once the scheme
\* texts are removed and the text is cut at its first ":".
ServerAddress(self, inbound) ==
    LET server == GetOr(inbound.listen, "0.0.0.0")
        replaced == SelectSeq(self.base_url, LAMBDA t : t \notin {"https://", "http://"})
        colons == {i \in 1..Len(replaced) : replaced[i] = ":"}
        cut == IF colons = {} THEN Len(replaced)
               ELSE (CHOOSE i \in colons : \A k \in colons : i <= k) - 1
    IN  IF server = "0.0.0.0" \/ server = ""
        THEN Text(SubSeq(replaced, 1, cut))
        ELSE server

\* Security parameters that are the same for every security type.
VlessSecurity_SameForAll(stream_settings, security) ==
    <<<<"security", <<security>>>>>> \o
    (IF stream_settings.tlsSettings.serverName # <<>>
     THEN <<<<"sni", stream_settings.tlsSettings.serverName>>>> ELSE <<>>) \o
    (IF stream_settings.tlsSettings.alpn # <<>>
     THEN <<<<"alpn", Join(stream_settings.tlsSettings.alpn, ",")>>>> ELSE <<>>) \o
    (IF stream_settings.realitySettings.publicKey # <<>>
     THEN <<<<"pbk", stream_settings.realitySettings.publicKey>>>> ELSE <<>>)

\* Lines 493-530 of _build_vless_link: the security parameters, each added
\* when its setting is not empty.
VlessSecurity(stream_settings, security) ==
    LET Param(k, v) == IF v = <<>> THEN <<>> ELSE <<<<k, v>>>>
        tls_settings == stream_settings.tlsSettings
        reality_settings == stream_settings.realitySettings
    IN  IF security = "tls"
        THEN <<<<"security", <<"tls">>>>>> \o
             Param("sni", tls_settings.serverName) \o
             (IF tls_settings.alpn # <<>>
              THEN <<<<"alpn", Join(tls_settings.alpn, ",")>>>> ELSE <<>>)
        ELSE IF security = "reality"
        THEN <<<<"security", <<"reality">>>>>> \o
             Param("pbk", reality_settings.publicKey) \o
             Param("fp", reality_settings.fingerprint) \o
             (IF reality_settings.serverNames # <<>>
              THEN <<<<"sni", reality_settings.serverNames[1]>>>> ELSE <<>>) \o
             (IF reality_settings.shortIds # <<>>
              THEN <<<<"sid", reality_settings.shortIds[1]>>>> ELSE <<>>) \o
             Param("spx", quote(reality_settings.spiderX, {"/"}, FALSE))
        ELSE <<>>

\* Transport parameters that do not look at the transport type.
VlessTransport_AnyTransport(stream_settings, network) ==
    <<<<"path", quote(GetOr(stream_settings.wsSettings.path, <<"/">>), {"/"}, FALSE)>>>> \o
    (IF stream_settings.wsSettings.host # <<>>
     THEN <<<<"host", stream_settings.wsSettings.host>>>> ELSE <<>>) \o
    (IF stream_settings.grpcSettings.serviceName # <<>>
     THEN <<<<"serviceName", stream_settings.grpcSettings.serviceName>>>> ELSE <<>>)

\* Lines 537-557 of _build_vless_link: the parameters of the transport.
VlessTransport(stream_settings, network) ==
    IF network = "ws"
    THEN <<<<"path", quote(GetOr(stream_settings.wsSettings.path, <<"/">>), {"/"}, FALSE)>>>> \o
         (IF stream_settings.wsSettings.host # <<>>
          THEN <<<<"host", stream_settings.wsSettings.host>>>> ELSE <<>>)
    ELSE IF network = "grpc"
    THEN (IF stream_settings.grpcSettings.serviceName # <<>>
          THEN <<<<"serviceName", stream_settings.grpcSettings.serviceName>>>> ELSE <<>>)
    ELSE IF network = "tcp"
    THEN (IF GetOr(stream_settings.tcpSettings.headerType, "none") # "none"
          THEN <<<<"headerType", <<GetOr(stream_settings.tcpSettings.headerType, "none")>>>>>>
          ELSE <<>>)
    ELSE <<>>

\* _build_vless_link (lines 464-563).  The link is kept by its parts:
\* f"vless://{uuid}@{server}:{port}?{query_string}#{quote(email)}", the query
\* being urlencode(params, safe="/:,"), that is quote_plus of every value.
build_vless_link(self, target_client, inbound, stream_settings, port, network, security) ==
    LET params == <<<<"type", <<network>>>>, <<"encryption", <<"none">>>>>> \o
                  VlessSecurity(stream_settings, security) \o
                  (IF target_client.flow # <<>> THEN <<<<"flow", target_client.flow>>>> ELSE <<>>) \o
                  VlessTransport(stream_settings, network)
    IN  [scheme |-> "vless://", user |-> target_client.id, server |-> ServerAddress(self, inbound),
         port |-> ToString(port),
         query |-> [i \in 1..Len(params) |->
                       <<params[i][1], quote(params[i][2], {"/", ":", ","}, TRUE)>>],
         fragment |-> quote(target_client.email, {"/"}, FALSE)]

\* A vmess config that fills host and path for every transport.
build_vmess_link_AnyTransport(self, target_client, inbound, stream_settings, port, network, security) ==
    [scheme |-> "vmess://",
     b64 |-> <<<<"v", <<"2">>>>, <<"ps", target_client.email>>,
               <<"add", <<ServerAddress(self, inbound)>>>>,
               <<"port", <<ToString(port)>>>>, <<"id", <<target_client.id>>>>, <<"aid", <<"0">>>>,
               <<"net", <<network>>>>, <<"type", <<"none">>>>,
               <<"host", stream_settings.wsSettings.host>>,
               <<"path", GetOr(stream_settings.wsSettings.path, <<"/">>)>>,
               <<"tls", IF security = "tls" THEN <<security>> ELSE <<>>>>>>]

\* _build_vmess_link (lines 565-611): f"vmess://{vmess_base64}".  `b64` is the
\* JSON text that base64 encodes, kept as the key/value pairs json.dumps
\* writes, in the order of the dict; a value is the pieces of its text.
build_vmess_link(self, target_client, inbound, stream_settings, port, network, security) ==
    [scheme |-> "vmess://",
     b64 |-> <<<<"v", <<"2">>>>, <<"ps", target_client.email>>,
               <<"add", <<ServerAddress(self, inbound)>>>>,
               <<"port", <<ToString(port)>>>>, <<"id", <<target_client.id>>>>, <<"aid", <<"0">>>>,
               <<"net", <<network>>>>, <<"type", <<"none">>>>,
               <<"host", IF network = "ws" THEN stream_settings.wsSettings.host ELSE <<>>>>,
               <<"path", IF network = "ws"
                         THEN GetOr(stream_settings.wsSettings.path, <<"/">>) ELSE <<>>>>,
               <<"tls", IF security = "tls" THEN <<security>> ELSE <<>>>>>>]

\* A trojan link that names the server whatever the security is.
build_trojan_link_SniAlways(self, target_client, inbound, stream_settings, port, network, security) ==
    [scheme |-> "trojan://", user |-> target_client.password, server |-> ServerAddress(self, inbound),
     port |-> ToString(port),
     query |-> <<<<"type", quote(<<network>>, {}, TRUE)>>,
                 <<"security", quote(<<security>>, {}, TRUE)>>,
                 <<"sni", quote(stream_settings.tlsSettings.serverName, {}, TRUE)>>>>,
     fragment |-> quote(target_client.email, {"/"}, FALSE)]

\* _build_trojan_link (lines 613-649):
\* f"trojan://{password}@{server}:{port}?{query_string}#{quote(email)}", the
\* query being urlencode(params).
build_trojan_link(self, target_client, inbound, stream_settings, port, network, security) ==
    LET params == <<<<"type", <<network>>>>, <<"security", <<security>>>>>> \o
                  (IF security = "tls" /\ stream_settings.tlsSettings.serverName # <<>>
                   THEN <<<<"sni", stream_settings.tlsSettings.serverName>>>> ELSE <<>>)
    IN  [scheme |-> "trojan://", user |-> target_client.password,
         server |-> ServerAddress(self, inbound), port |-> ToString(port),
         query |-> [i \in 1..Len(params) |-> <<params[i][1], quote(params[i][2], {}, TRUE)>>],
         fragment |-> quote(target_client.email, {"/"}, FALSE)]

\* A dispatch that builds a vless link whatever the protocol is.
BuildLink_AlwaysVless(self, protocol, target_client, inbound, stream_settings, port, network, security) ==
    Return(build_vless_link(self, target_client, inbound, stream_settings, port, network, security))

\* The absent link: get_client_link's None.
NoLink == [scheme |-> NoneVal]

\* Lines 426-458 of get_client_link: the builder is chosen by the protocol.
BuildLink(self, protocol, target_client, inbound, stream_settings, port, network, security) ==
    CASE protocol = "vless" ->
             Return(build_vless_link(self, target_client, inbound, stream_settings, port, network,
                                     security))
      [] protocol = "vmess" ->
             Return(build_vmess_link(self, target_client, inbound, stream_settings, port, network,
                                     security))
      [] protocol = "trojan" ->
             Return(build_trojan_link(self, target_client, inbound, stream_settings, port, network,
                                      security))
      [] OTHER -> Return(NoLink)

\* get_client_link (lines 384-462) on what get_inbound gave: every exception
\* (of get_inbound, of json.loads on the settings or the stream settings)
\* is caught at line 460 and None is returned.
get_client_link(self, fetched, email) ==
    IF fetched.kind = "raise" \/ ~fetched.val.success \/ fetched.val.obj.kind # "obj"
    THEN Return(NoLink)
    ELSE LET obj == fetched.val.obj.items[1]
             j == IF obj.settings.wf THEN FirstWithEmail(obj.settings.clients, email, 1) ELSE 0
             tag == GetOr(obj.protocol, "")
             protocol == CASE tag = "VLESS" -> "vless"
                           [] tag = "Trojan" -> "trojan"
                           [] OTHER -> tag
         IN  IF j = 0 \/ ~obj.streamSettings.wf
             THEN Return(NoLink)
             ELSE BuildLink(self, protocol, obj.settings.clients[j], obj, obj.streamSettings,
                            obj.port, GetOr(obj.streamSettings.network, "tcp"),
                            GetOr(obj.streamSettings.security, "none"))

\* The calls of get_client_link the model runs: the instance's base address,
\* what get_inbound gave and the label asked for.
LinkCalls ==
    LET LinkCall(base, fetched, email) ==
            [phase |-> "call", self |-> [base_url |-> base], fetched |-> fetched,
             email |-> email, result |-> NoOutcome]
        Base == <<"https://", "panel.example", ":", "2053">>
        Bases == {Base, <<"http://", "panel.example", ":", "2053", "/", "xui">>,
                  <<"https://", "panel.example", "/", "xui">>}
        Holder(email, flow) ==
            [id |-> "u-a", email |-> email, enable |-> TRUE, flow |-> flow, password |-> "pw"]
        Other == [id |-> "u-b", email |-> <<"b">>, enable |-> TRUE, flow |-> <<>>,
                  password |-> "pw-b"]
        Holders == {Holder(<<"a">>, <<>>), Holder(<<"a", " ", "b">>, <<"xtls-rprx-vision">>),
                    Holder(<<"U+00E9", "%", "20">>, <<>>)}
        Tls == [serverName |-> <<"example.com">>, alpn |-> <<<<"h2">>, <<"http", "/", "1.1">>>>]
        Reality == [publicKey |-> <<"K">>, fingerprint |-> <<"chrome">>,
                    serverNames |-> <<<<"example.com">>, <<"b.example">>>>,
                    shortIds |-> <<<<"ab">>, <<"cd">>>>, spiderX |-> <<"/", "x", " ", "y">>]
        Ws == [path |-> <<<<"/", "foo">>>>, host |-> <<"h.example">>]
        Grpc == [serviceName |-> <<"svc">>]
        Tcp == [headerType |-> <<"http">>]
        Securities ==
            {[security |-> s, tlsSettings |-> Tls, realitySettings |-> Reality]
                : s \in {<<>>, <<"none">>, <<"xtls">>}} \cup
            {[security |-> <<"tls">>, tlsSettings |-> [serverName |-> n, alpn |-> a],
              realitySettings |-> Reality]
                : n \in {<<>>, Tls.serverName}, a \in {<<>>, <<<<"h2">>>>, Tls.alpn}} \cup
            {[security |-> <<"reality">>, tlsSettings |-> Tls, realitySettings |-> r]
                : r \in [publicKey : {<<>>, Reality.publicKey},
                         fingerprint : {<<>>, Reality.fingerprint},
                         serverNames : {<<>>, Reality.serverNames},
                         shortIds : {<<>>, Reality.shortIds},
                         spiderX : {<<>>, Reality.spiderX}]}
        Transports ==
            {[network |-> <<"ws">>, wsSettings |-> [path |-> p, host |-> h],
              grpcSettings |-> Grpc, tcpSettings |-> Tcp]
                : p \in {<<>>, <<<<"/">>>>, Ws.path, <<<<"/", "a", " ", "b">>>>},
                  h \in {<<>>, Ws.host}} \cup
            {[network |-> <<"grpc">>, wsSettings |-> Ws, grpcSettings |-> [serviceName |-> n],
              tcpSettings |-> Tcp]
                : n \in {<<>>, Grpc.serviceName}} \cup
            {[network |-> n, wsSettings |-> Ws, grpcSettings |-> Grpc,
              tcpSettings |-> [headerType |-> t]]
                : n \in {<<>>, <<"tcp">>, <<"kcp">>}, t \in {<<>>, <<"none">>, <<"http">>}}
        Stream(wf, s, t) ==
            [wf |-> wf, network |-> t.network, security |-> s.security,
             tlsSettings |-> s.tlsSettings, realitySettings |-> s.realitySettings,
             wsSettings |-> t.wsSettings, grpcSettings |-> t.grpcSettings,
             tcpSettings |-> t.tcpSettings]
        Obj(protocol, listen, settings, stream) ==
            [id |-> 1, remark |-> "inbound-1", protocol |-> protocol, port |-> 443,
             listen |-> listen, settings |-> settings, streamSettings |-> stream]
        Fetched(obj) == Return(Envelope(TRUE, <<>>, JObj(obj)))
        Plain(protocol) ==
            Obj(protocol, <<>>, Settings(<<Other, Holder(<<"a">>, <<>>)>>),
                Stream(TRUE, [security |-> <<>>, tlsSettings |-> Tls, realitySettings |-> Reality],
                       [network |-> <<>>, wsSettings |-> Ws, grpcSettings |-> Grpc,
                        tcpSettings |-> Tcp]))
    IN  {LinkCall(Base, Fetched(Obj(<<p>>, <<>>, Settings(<<Other, c>>), Stream(TRUE, s, t))), c.email)
            : p \in {"vless", "vmess", "trojan"}, c \in Holders, s \in Securities,
              t \in Transports} \cup
        {LinkCall(b, Fetched([Plain(<<p>>) EXCEPT !.listen = l]), <<"a">>)
            : p \in {"vless", "vmess", "trojan", "VLESS"}, b \in Bases,
              l \in {<<>>, <<"">>, <<"0.0.0.0">>, <<"10.0.0.1">>}} \cup
        {LinkCall(Base, f, e)
            : f \in {Raise(XUIClientError("Network error: {}", <<"ReadTimeout">>)),
                     Return(Envelope(FALSE, <<"Inbound Not Found">>, JNull)),
                     Return(Envelope(TRUE, <<>>, JNull)),
                     Return(Envelope(TRUE, <<>>, JAbsent))} \cup
                    {Fetched(o) : o \in {Plain(p) : p \in {<<>>, <<"shadowsocks">>, <<"vless">>}}
                                        \cup
                                        {[Plain(<<p>>) EXCEPT !.settings = MalformedSettings]
                                            : p \in {"vless", "http"}} \cup
                                        {[Plain(<<p>>) EXCEPT !.streamSettings.wf = FALSE]
                                            : p \in {"vmess", "http"}}},
              e \in {<<"a">>, <<"zz">>}}

\* get_client_link (lines 371-462) from the answer of get_inbound on.
GetClientLink ==
    /\ link.phase = "call"
    /\ link' = [link EXCEPT !.phase = "done",
                            !.result = get_client_link(link.self, link.fetched, link.email)]
    /\ log' = Logged(log, <<LogRec("info", "Getting client link", ""),
                            IF link'.result.val = NoLink
                            THEN LogRec("error", "No link", "")
                            ELSE LogRec("info", "Successfully generated link", "")>>)
    /\ UNCHANGED <<client, session_cookie, pc, frame, wire, frame0, answers, outcome, ncalls,
                   op, result, panel, before, prev, peer, bot>>

InitLink ==
    /\ NewInstance
    /\ panel = <<>>
    /\ before = <<>>
    /\ prev = NoPrev
    /\ peer = [phase |-> "none"]
    /\ link \in LinkCalls
    /\ bot = [phase |-> "none"]

\* get_client_link as a function of what get_inbound gave.
SpecLink == InitLink /\ [][GetClientLink]_vars

-----------------------------------------------------------------------------
(* The remote panel (3x-ui), as the specification describes it: it keeps the
   clients of each inbound, serves the endpoints of section 6 and detects a
   duplicate label within a single inbound only (section 3). *)

PanelLabels == {"a"}

EmptyPanel == [i \in InboundIds |-> Inbound(i, RemarkOf(i), Settings(<<>>))]

\* How often the label occurs among the client entries of the panel.
Occurrences(p, email) ==
    Cardinality(UNION {{<<i, j>> : j \in {k \in 1..Len(p[i].settings.clients) :
                                              p[i].settings.clients[k].email = email}}
                          : i \in 1..Len(p)})

\* Every label occurs at most once across all inbounds.
UniqueLabels(p) == \A l \in Labels : Occurrences(p, l) <= 1

\* The panels a run may start from.
InitialPanels ==
    {p \in {[i \in InboundIds |-> Inbound(i, RemarkOf(i), Settings(f[i]))]
               : f \in [InboundIds -> {<<>>, <<Client("u-a", "a", TRUE)>>,
                                       <<Client("u-a", "a", FALSE)>>}]}
        : UniqueLabels(p)}

Served(val, p) == [val |-> val, panel |-> p]

PanelFailed(msg, p) == Served(Envelope(FALSE, msg, JNull), p)

\* The positions of the entries of `clients` with credential id `uuid`.
WithId(clients, uuid) == {j \in 1..Len(clients) : clients[j].id = uuid}

\* `clients` without its entry at position j.
Without(clients, j) == SubSeq(clients, 1, j - 1) \o SubSeq(clients, j + 1, Len(clients))

\* addClient: the entry is appended to the inbound unless the inbound holds
\* the label already.
PanelAddClient(data, p) ==
    IF data.id \notin DOMAIN p
    THEN PanelFailed(<<"Inbound Not Found">>, p)
    ELSE LET c == data.settings.clients[1]
         IN  IF \E j \in 1..Len(p[data.id].settings.clients) :
                    p[data.id].settings.clients[j].email = c.email
             THEN PanelFailed(DupMsg(<<"Something went wrong!", " ">>, <<c.email>>, <<>>), p)
             ELSE Served(Envelope(TRUE, <<"Client(s) added">>, JNull),
                         [p EXCEPT ![data.id].settings.clients =
                                       Append(@, Client(c.id, c.email, c.enable))])

\* updateClient/{uuid}: the enabled flag of the entry with that credential
\* id, in the inbound named by the body, is set.
PanelUpdateClient(data, p) ==
    IF data.inboundId \notin DOMAIN p \/ WithId(p[data.inboundId].settings.clients, data.id) = {}
    THEN PanelFailed(<<"Something went wrong!">>, p)
    ELSE LET j == CHOOSE j \in WithId(p[data.inboundId].settings.clients, data.id) :
                      \A k \in WithId(p[data.inboundId].settings.clients, data.id) : j <= k
         IN  Served(Envelope(TRUE, <<"Client updated">>, JNull),
                    [p EXCEPT ![data.inboundId].settings.clients[j].enable = data.enable])

\* {inboundId}/delClient/{uuid}: the entry with that credential id leaves
\* the inbound.
PanelDelClient(inbound_id, uuid, p) ==
    IF inbound_id \notin DOMAIN p \/ WithId(p[inbound_id].settings.clients, uuid) = {}
    THEN PanelFailed(<<"Something went wrong!">>, p)
    ELSE LET j == CHOOSE j \in WithId(p[inbound_id].settings.clients, uuid) :
                      \A k \in WithId(p[inbound_id].settings.clients, uuid) : j <= k
         IN  Served(Envelope(TRUE, <<"Client deleted">>, JNull),
                    [p EXCEPT ![inbound_id].settings.clients = Without(@, j)])

\* What the panel answers a request with and the inbounds it holds afterwards.
PanelServe(req, p) ==
    CASE req.url = base_url \o ListEndpoint -> Served(Envelope(TRUE, <<>>, JList(p)), p)
      [] \E i \in InboundIds : req.url = base_url \o GetEndpoint(i) ->
             LET i == CHOOSE i \in InboundIds : req.url = base_url \o GetEndpoint(i)
             IN  Served(Envelope(TRUE, <<>>, JObj(p[i])), p)
      [] req.url = base_url \o AddClientEndpoint -> PanelAddClient(req.body, p)
      [] \E u \in Uuids : req.url = base_url \o UpdateClientEndpoint(u) ->
             PanelUpdateClient(req.body, p)
      [] \E i \in InboundIds, u \in Uuids \cup {"u-a2"} : req.url = base_url \o DelClientEndpoint(i, u) ->
             LET iu == CHOOSE iu \in InboundIds \X (Uuids \cup {"u-a2"}) :
                           req.url = base_url \o DelClientEndpoint(iu[1], iu[2])
             IN  PanelDelClient(iu[1], iu[2], p)
      [] OTHER -> PanelFailed(<<"Something went wrong!">>, p)

\* The exchanges a request may end with: the panel serves it, or the exchange
\* fails and leaves the panel as it was (a timeout, an error status, a
\* success=false envelope).  Session expiry is left to Respond and ReLogin.
PanelAnswers(req, p) ==
    {[r |-> HttpResponse(200, "json", TRUE, PanelServe(req, p).val, <<>>),
      panel |-> PanelServe(req, p).panel]} \cup
    {[r |-> x, panel |-> p] :
        x \in {HttpFailure("ReadTimeout"),
               HttpResponse(500, BodyHtml.text, FALSE, NoVal, <<>>),
               HttpResponse(200, "json", TRUE,
                            Envelope(FALSE, <<"Something went wrong!">>, JNull), <<>>)}}

\* The awaited exchange of _make_request ends (lines 69-90), the panel being
\* the one above.
PanelRespond ==
    /\ pc = "await"
    /\ \E a \in PanelAnswers(wire[Len(wire)], panel) :
         /\ Responded(a.r)
         /\ panel' = a.panel
    /\ UNCHANGED <<before, prev, peer, link, bot>>

\* The next operation of the instance starts, inside the same `async with`:
\* the operations of an instance run one after the other.  `prev` keeps what
\* the operation before was, how it ended and the panel it started from.
NextOp ==
    /\ pc = "body"
    /\ OpIdle
    /\ ncalls < MaxCalls
    /\ ncalls' = ncalls + 1
    /\ prev' = [name |-> op.name,
                email |-> IF op.name \in {"create_client", "update_client_status"}
                          THEN op.email ELSE "",
                uuid |-> IF op.name \in {"create_client", "update_client_status", "delete_client"}
                         THEN op.uuid ELSE "",
                inbound_id |-> IF op.name \in {"create_client", "update_client_status",
                                               "delete_client"}
                               THEN op.inbound_id ELSE 0,
                enable |-> IF op.name \in {"create_client", "update_client_status"}
                           THEN op.enable ELSE FALSE,
                ok |-> result.kind = "return",
                before |-> before]
    /\ before' = panel
    /\ UNCHANGED <<panel, peer, link, bot>>

CreateClientNext ==
    /\ NextOp
    /\ \E email \in PanelLabels, inbound_id \in InboundIds :
         CreateClientStart(email, "u-" \o email, inbound_id, TRUE)

UpdateClientStatusNext ==
    /\ NextOp
    /\ \E email \in PanelLabels, inbound_id \in InboundIds, enable \in BOOLEAN :
         UpdateClientStatusStart(email, "u-" \o email, inbound_id, enable)

DeleteClientNext ==
    /\ NextOp
    /\ \E email \in PanelLabels, inbound_id \in InboundIds :
         DeleteClientStart("u-" \o email, inbound_id)

DeleteFromAllNext ==
    /\ NextOp
    /\ \E email \in PanelLabels : DeleteFromAllStart(email)

InitPanel ==
    /\ NewInstance
    /\ panel \in InitialPanels
    /\ before = panel
    /\ prev = NoPrev
    /\ peer = [phase |-> "none"]
    /\ link = [phase |-> "none"]
    /\ bot = [phase |-> "none"]

\* One instance running lifecycle operations against the panel.
NextPanel ==
    \/ AEnter
    \/ AEnterLogin
    \/ CreateClientNext
    \/ CreateClientScanned
    \/ CreateClientAdded
    \/ UpdateClientStatusNext
    \/ UpdateClientStatusFetched
    \/ UpdateClientStatusUpdated
    \/ DeleteClientNext
    \/ DeleteClientDeleted
    \/ DeleteFromAllNext
    \/ DeleteFromAllScanned
    \/ DeleteFromAllDeleted
    \/ PanelRespond
    \/ AExit

SpecPanel == InitPanel /\ [][NextPanel]_vars

-----------------------------------------------------------------------------
(* A second instance running create_client against the same panel.  Only
   what it does to the panel is kept: its session is open and each of its
   exchanges is served. *)

\* The second instance reaches the end of its scan (lines 170-176): the
\* inbound list it is served is the panel's at that moment.
PeerScanned ==
    /\ peer.phase = "scan"
    /\ LET served == PanelServe([url |-> base_url \o ListEndpoint, body |-> NoneVal], panel)
           existing_client == find_client_in_all_inbounds(get_inbound_list(served.val),
                                                          peer.email)
       IN  peer' = IF existing_client.val.found
                   THEN [peer EXCEPT !.phase = "done",
                                     !.result = Raise(PrecheckDuplicateError(
                                                          existing_client.val.inbound_remark))]
                   ELSE [peer EXCEPT !.phase = "add"]
    /\ UNCHANGED <<client, session_cookie, pc, frame, wire, frame0, answers, outcome, log,
                   ncalls, op, result, panel, before, prev, link, bot>>

\* The second instance's addClient exchange (lines 178-221).
PeerAdded ==
    /\ peer.phase = "add"
    /\ LET served == PanelServe([url |-> base_url \o AddClientEndpoint,
                                 body |-> AddClientData(peer.email, peer.uuid,
                                                        peer.inbound_id, TRUE)], panel)
       IN  /\ panel' = served.panel
           /\ peer' = [peer EXCEPT !.phase = "done",
                                   !.result = CreateClientResult(peer.email, served.val)]
    /\ UNCHANGED <<client, session_cookie, pc, frame, wire, frame0, answers, outcome, log,
                   ncalls, op, result, before, prev, link, bot>>

InitRace ==
    /\ NewInstance
    /\ panel = EmptyPanel
    /\ before = panel
    /\ prev = NoPrev
    /\ peer \in {[phase |-> "scan", email |-> "a", uuid |-> "u-a2", inbound_id |-> i,
                  result |-> NoOutcome] : i \in InboundIds}
    /\ link = [phase |-> "none"]
    /\ bot = [phase |-> "none"]

\* Two instances, each running one create_client, their exchanges with the
\* panel interleaved in any order.
NextRace ==
    \/ AEnter
    \/ AEnterLogin
    \/ CreateClientNext
    \/ CreateClientScanned
    \/ CreateClientAdded
    \/ PanelRespond
    \/ AExit
    \/ PeerScanned
    \/ PeerAdded

SpecRace == InitRace /\ [][NextRace]_vars

Next ==
    \/ AEnter
    \/ AEnterLogin
    \/ Call
    \/ CallUnentered
    \/ Respond
    \/ ReLogin
    \/ AExit

Spec == Init /\ [][Next]_vars

\* One public operation in a scoped session, as the handlers use the client.
NextOps ==
    \/ AEnter
    \/ AEnterLogin
    \/ CreateClient
    \/ CreateClientScanned
    \/ CreateClientAdded
    \/ FindClient
    \/ FindClientScanned
    \/ GetClientTraffic
    \/ GetClientTrafficFetched
    \/ UpdateClientStatus
    \/ UpdateClientStatusFetched
    \/ UpdateClientStatusUpdated
    \/ DeleteClient
    \/ DeleteClientDeleted
    \/ DeleteFromAll
    \/ DeleteFromAllScanned
    \/ DeleteFromAllDeleted
    \/ Respond
    \/ ReLogin
    \/ AExit

SpecOps == Init /\ [][NextOps]_vars

\* Every HTTP exchange the client awaits ends (httpx's per-call timeouts,
\* line 30): the answer to a request in flight is eventually consumed.
LiveSpec ==
    Init /\ [][Next]_vars /\ WF_vars(AEnterLogin) /\ WF_vars(Respond) /\ WF_vars(ReLogin)

-----------------------------------------------------------------------------
(* Reading the state of an executor call *)

\* The requests of the current executor call, in the order they were sent.
CallWire == SubSeq(wire, frame0 + 1, Len(wire))

IsLoginRequest(req) == req.url = login_url

CountLogins(w) == Cardinality({i \in 1..Len(w) : IsLoginRequest(w[i])})

\* An executor call has ended: _make_request returned or raised to its caller.
CallDone == pc \in {"body", "new"} /\ outcome.kind # "none"

IsResponse(r) == r.exc = "None"

\* The answer is a session-expiry response.
Is401(r) == IsResponse(r) /\ r.status = 401

\* The error kinds of the specification, as the messages the code raises.
IsAuthenticationError(e) ==
    /\ e.cls = "XUIClientError"
    /\ e.fmt \in {"Connection failed: Cannot connect to {}", "Connection timeout to {}",
                  "Login failed: {} - {}"}
IsNetworkError(e) == e.cls = "XUIClientError" /\ e.fmt = "Network error: {}"
IsResponseError(e) == e.cls = "XUIClientError" /\ e.fmt = "API request failed with status {}"
IsParseError(e) == e.cls = "XUIClientError" /\ e.fmt = "Invalid JSON response: {}"

\* The value `x` is among the values the error was built with.
Carries(e, x) == \E i \in 1..Len(e.args) : e.args[i] = x

\* The retried request repeats the first one (method, path, body).
SameCall(a, b) == a.method = b.method /\ a.url = b.url /\ a.body = b.body

-----------------------------------------------------------------------------
(* C1 *)

\* C1 as stated: when the first attempt of an executor call is answered 401,
\* the call makes exactly one login and after it exactly one retried request
\* with the same method, path and body; when the retried request is answered
\* 401 too, the call ends with an error and nothing more is sent.
C1_AsStated ==
    (CallDone /\ Len(answers) >= 1 /\ Is401(answers[1])) =>
        /\ Len(CallWire) = 3
        /\ ~IsLoginRequest(CallWire[1])
        /\ IsLoginRequest(CallWire[2])
        /\ ~IsLoginRequest(CallWire[3])
        /\ SameCall(CallWire[1], CallWire[3])
        /\ (Is401(answers[3]) => outcome.kind = "raise")

\* C1 (amended): when the first attempt of an executor call is answered 401,
\* exactly one login is made; when that login succeeds, exactly one retried
\* request with the same method, path and body follows it (carrying the new
\* session token), and when the retried request is answered 401 too the call
\* ends with the status error and nothing more is sent; when that login fails,
\* the call ends with the login's error and no retried request is sent.
C1_OneReloginOneRetry ==
    (CallDone /\ Len(answers) >= 1 /\ Is401(answers[1])) =>
        /\ Len(CallWire) \in {2, 3}
        /\ CountLogins(CallWire) = 1
        /\ IsLoginRequest(CallWire[2])
        /\ Len(answers) = Len(CallWire)
        /\ IF Len(CallWire) = 3
           THEN /\ login(CallWire[1].cookie, answers[2]).outcome.kind = "return"
                /\ SameCall(CallWire[1], CallWire[3])
                /\ CallWire[3].cookie = session_cookie
                /\ (Is401(answers[3]) =>
                       /\ outcome.kind = "raise"
                       /\ IsResponseError(outcome.err)
                       /\ Carries(outcome.err, "401"))
           ELSE /\ login(CallWire[1].cookie, answers[2]).outcome.kind = "raise"
                /\ outcome = login(CallWire[1].cookie, answers[2]).outcome

\* A call whose first and retried attempts were both answered 401 has ended.
C1_Witness ==
    /\ CallDone
    /\ Len(answers) = 3
    /\ Is401(answers[1])
    /\ Is401(answers[3])
    /\ outcome.kind = "raise"

-----------------------------------------------------------------------------
(* C2 *)

\* The first attempt failed, and not by session expiry.
FirstFailedOtherwise ==
    /\ Len(answers) >= 1
    /\ \/ ~IsResponse(answers[1])
       \/ IsResponse(answers[1]) /\ answers[1].status >= 400 /\ answers[1].status # 401
       \/ IsResponse(answers[1]) /\ answers[1].status < 400 /\ ~answers[1].wf

\* C2: an executor call makes at most one login, at any point of it; and a
\* call whose attempt fails otherwise than by session expiry (an error status
\* other than 401, a transport failure, an undecodable body) has made no login
\* and exactly one HTTP request when it ends.
C2_BoundedRetry ==
    /\ (pc \in {"await", "relogin"} \/ CallDone =>
            CountLogins(CallWire) <= 1 /\ Len(CallWire) <= 3)
    /\ (CallDone /\ FirstFailedOtherwise =>
            /\ CountLogins(CallWire) = 0
            /\ Len(CallWire) = 1
            /\ outcome.kind = "raise")

\* A call answered 500 at once has ended after its only request.
C2_Witness ==
    /\ CallDone
    /\ Len(answers) = 1
    /\ IsResponse(answers[1])
    /\ answers[1].status = 500
    /\ Len(CallWire) = 1

-----------------------------------------------------------------------------
(* C3 *)

\* C3: every executor call in progress eventually ends (returns or raises),
\* whatever the panel answers, given that every single exchange ends.
C3_CallEnds == (pc \in {"await", "relogin"}) ~> (pc = "body")

\* A call ended although the panel answered 401 to both of its attempts.
C3_Witness ==
    /\ pc = "body"
    /\ ncalls > 0
    /\ Len(answers) = 3
    /\ Is401(answers[1])
    /\ Is401(answers[3])
    /\ frame = NoFrame

-----------------------------------------------------------------------------
(* C4 *)

HoldsSession(cookie) == cookie \notin {NoneVal, ""}

\* C4: on an instance used through `async with`, every request to an endpoint
\* other than /login carries a non-empty session token, the one the instance
\* holds when it sends it; the body of the `async with` runs only with a token
\* held; and after a failed initial login no such request is ever sent.
C4_SessionBeforeRequests ==
    /\ \A i \in 1..Len(wire) : ~IsLoginRequest(wire[i]) => HoldsSession(wire[i].cookie)
    /\ (pc = "await" => wire[Len(wire)].cookie = session_cookie)
    /\ (pc \in {"body", "await", "relogin", "exited"} => HoldsSession(session_cookie))
    /\ (pc = "failed" => \A i \in 1..Len(wire) : IsLoginRequest(wire[i]))

\* The retried request of a call is in flight with the token of the re-login.
C4_Witness ==
    /\ pc = "await"
    /\ Len(answers) = 2
    /\ ~IsLoginRequest(wire[Len(wire)])
    /\ wire[Len(wire)].cookie = session_cookie
    /\ HoldsSession(session_cookie)
    /\ wire[Len(wire)].cookie # wire[frame0 + 1].cookie

-----------------------------------------------------------------------------
(* C5 *)

\* "name=value" pairs joined by "; ", written out for up to three cookies.
ExpectedToken(c) ==
    CASE Len(c) = 1 -> c[1][1] \o "=" \o c[1][2]
      [] Len(c) = 2 -> c[1][1] \o "=" \o c[1][2] \o "; " \o c[2][1] \o "=" \o c[2][2]
      [] Len(c) = 3 -> c[1][1] \o "=" \o c[1][2] \o "; " \o c[2][1] \o "=" \o c[2][2]
                         \o "; " \o c[3][1] \o "=" \o c[3][2]

\* C5: a login (the initial one or the one of the retry) returns, and stores
\* the joined cookie pairs as the session token, exactly when its response has
\* status 200 and sets at least one cookie; in every other case (connection
\* failure, timeout, other transport failure, another status, 200 without a
\* cookie) it raises an authentication error.
C5_LoginOutcome ==
    [][ (pc \in {"aenter", "relogin"}) =>
          LET r == answers'[Len(answers')]
              accepted == IsResponse(r) /\ r.status = 200 /\ Len(r.cookies) >= 1
              returned == \/ pc = "aenter" /\ pc' = "body"
                          \/ pc = "relogin" /\ pc' = "await"
          IN  /\ accepted <=> returned
              /\ returned => /\ session_cookie' = ExpectedToken(r.cookies)
                             /\ outcome'.kind # "raise"
              /\ ~returned => /\ outcome'.kind = "raise"
                              /\ IsAuthenticationError(outcome'.err)
                              /\ pc' \in {"failed", "body"}
      ]_vars

\* The initial login stored the two cookies of its response.
C5_Witness ==
    /\ pc = "body"
    /\ ncalls = 0
    /\ Len(answers) = 1
    /\ Len(answers[1].cookies) = 2
    /\ session_cookie = "3x-ui=s1; lang=en"

-----------------------------------------------------------------------------
(* C6 *)

\* The answer the call ended on is a response to one of its own attempts.
EndedOnAttempt == Len(answers) \in {1, 3}

LastAnswer == answers[Len(answers)]

\* C6 as stated: an error status that the single retry did not recover (on
\* the only attempt, on the retried attempt, or a 401 whose re-login failed)
\* ends the call with a ResponseError carrying the status and the body.
C6_AsStated ==
    (CallDone /\ Len(answers) >= 1 /\
     \/ EndedOnAttempt /\ IsResponse(LastAnswer) /\ LastAnswer.status >= 400
     \/ Len(answers) = 2 /\ Is401(answers[1])) =>
        LET r == IF EndedOnAttempt THEN LastAnswer ELSE answers[1]
        IN  /\ outcome.kind = "raise"
            /\ IsResponseError(outcome.err)
            /\ Carries(outcome.err, ToString(r.status))
            /\ Carries(outcome.err, r.text)

\* C6 (amended): an error status answered to the only attempt (other than a
\* first 401) or to the retried attempt ends the call with a ResponseError
\* that carries the status and nothing else: the body is written to the log
\* only; and a first 401 whose re-login fails ends the call with the login's
\* authentication error, not with a ResponseError.
C6_StatusErrorCarriesStatus ==
    /\ (CallDone /\ EndedOnAttempt /\ IsResponse(LastAnswer) /\ LastAnswer.status >= 400) =>
            /\ outcome.kind = "raise"
            /\ IsResponseError(outcome.err)
            /\ outcome.err.args = <<ToString(LastAnswer.status)>>
            /\ ~Carries(outcome.err, LastAnswer.text)
    /\ (CallDone /\ Len(answers) = 2) =>
            /\ Is401(answers[1])
            /\ outcome.kind = "raise"
            /\ IsAuthenticationError(outcome.err)
            /\ ~IsResponseError(outcome.err)

\* A call answered 500 with a JSON body has ended with the error for 500.
C6_Witness ==
    /\ CallDone
    /\ Len(answers) = 1
    /\ IsResponse(answers[1])
    /\ answers[1].status = 500
    /\ answers[1].wf
    /\ IsResponseError(outcome.err)
    /\ outcome.err.args = <<"500">>

-----------------------------------------------------------------------------
(* C7 *)

\* C7 as stated: a transport failure at any point of an executor call, the
\* re-login included, ends the call with a NetworkError, and a body that does
\* not decode ends it with a ParseError.
C7_AsStated ==
    /\ (CallDone /\ Len(answers) >= 1 /\ ~IsResponse(LastAnswer)) =>
            outcome.kind = "raise" /\ IsNetworkError(outcome.err)
    /\ (CallDone /\ EndedOnAttempt /\ IsResponse(LastAnswer)
            /\ LastAnswer.status < 400 /\ ~LastAnswer.wf) =>
            outcome.kind = "raise" /\ IsParseError(outcome.err)

\* C7 (amended): a transport failure of one of the call's own exchanges (the
\* first attempt or the retried one) ends the call with a NetworkError; a
\* transport failure of the re-login ends it with the login's authentication
\* error; a body that does not decode, under a status below 400, ends it with
\* a ParseError.
C7_TransportAndParseErrors ==
    /\ (CallDone /\ EndedOnAttempt /\ ~IsResponse(LastAnswer)) =>
            /\ outcome.kind = "raise"
            /\ IsNetworkError(outcome.err)
            /\ Carries(outcome.err, LastAnswer.exc)
    /\ (CallDone /\ Len(answers) = 2 /\ ~IsResponse(LastAnswer)) =>
            /\ outcome.kind = "raise"
            /\ IsAuthenticationError(outcome.err)
            /\ ~IsNetworkError(outcome.err)
    /\ (CallDone /\ EndedOnAttempt /\ IsResponse(LastAnswer)
            /\ LastAnswer.status < 400 /\ ~LastAnswer.wf) =>
            outcome.kind = "raise" /\ IsParseError(outcome.err)

\* The re-login of a call could not connect and the call has ended.
C7_Witness ==
    /\ CallDone
    /\ Len(answers) = 2
    /\ Is401(answers[1])
    /\ answers[2].exc = "ConnectError"
    /\ outcome.kind = "raise"
    /\ outcome.err.fmt = "Connection failed: Cannot connect to {}"

-----------------------------------------------------------------------------
(* C8 *)

\* C8: no step of an executor call changes self.client, and the only step of
\* it that changes self.session_cookie is a re-login that succeeds (it stores
\* the token of its response); a login or re-login that fails leaves the
\* stored token as it was.
C8_OnlyTokenChanges ==
    [][ /\ (\/ pc \in {"await", "relogin"}
            \/ pc \in {"body", "new"} /\ ncalls' # ncalls) =>
              /\ client' = client
              /\ (session_cookie' # session_cookie =>
                    /\ pc = "relogin"
                    /\ pc' = "await"
                    /\ Is401(answers[1])
                    /\ session_cookie' = ExpectedToken(answers'[2].cookies))
        /\ (pc = "relogin" /\ pc' = "body" => session_cookie' = session_cookie)
        /\ (pc = "aenter" /\ pc' = "failed" => session_cookie' = session_cookie)
      ]_vars

\* A re-login has replaced the token the first attempt was sent with.
C8_Witness ==
    /\ pc = "await"
    /\ Len(answers) = 2
    /\ HoldsSession(wire[frame0 + 1].cookie)
    /\ session_cookie # wire[frame0 + 1].cookie
    /\ session_cookie = ExpectedToken(answers[2].cookies)

-----------------------------------------------------------------------------
(* Reading the state of a lifecycle operation *)

OpDone(name) == op.name = name /\ op.phase = "done"

IsAddClientRequest(req) == req.url = base_url \o AddClientEndpoint

IsListRequest(req) == req.url = base_url \o ListEndpoint /\ req.method = "GET"

\* Some inbound of the list holds a client with the label.
LabelListed(inbounds, email) ==
    \E i \in 1..Len(inbounds) :
        /\ inbounds[i].settings.wf
        /\ \E j \in 1..Len(inbounds[i].settings.clients) :
               inbounds[i].settings.clients[j].email = email

\* The duplicate-label errors of create_client: the one of the pre-check
\* (line 175) and the one made from the panel's message (line 219).
IsDuplicateClientError(e) ==
    /\ e.cls = "XUIClientError"
    /\ e.fmt \in {"A client with this name already exists in inbound '{}'. Ask the user to choose another name.",
                  "A client with email '{}' already exists in 3x-ui. Delete it through the 3x-ui panel."}

-----------------------------------------------------------------------------
(* C9 *)

\* C9: create_client first asks for the inbound list; when the list it gets
\* holds the label in any inbound, create_client raises the duplicate error
\* and no request to the addClient endpoint is sent during that call; an
\* addClient request is only ever sent after a scan that did not find the label.
C9_DuplicateFoundNoCreate ==
    /\ (op.name = "create_client" /\ Len(wire) >= 1 => IsListRequest(wire[1]))
    /\ (op.name = "create_client" /\ op.inbounds.kind = "list"
            /\ LabelListed(op.inbounds.items, op.email)) =>
            /\ op.phase = "done"
            /\ result.kind = "raise"
            /\ IsDuplicateClientError(result.err)
            /\ \A i \in 1..Len(wire) : ~IsAddClientRequest(wire[i])
    /\ (op.name = "create_client" /\ \E i \in 1..Len(wire) : IsAddClientRequest(wire[i])) =>
            /\ op.phase \in {"add", "done"}
            /\ op.inbounds.kind = "list"
            /\ ~LabelListed(op.inbounds.items, op.email)

\* create_client ended on a label held by the second listed inbound only.
C9_Witness ==
    /\ OpDone("create_client")
    /\ op.inbounds.kind = "list"
    /\ Len(op.inbounds.items) = 2
    /\ ~LabelListed(SubSeq(op.inbounds.items, 1, 1), op.email)
    /\ LabelListed(op.inbounds.items, op.email)
    /\ result.kind = "raise"
    /\ IsDuplicateClientError(result.err)
    /\ result.err.args = <<"Unknown">>
    /\ \A i \in 1..Len(wire) : ~IsAddClientRequest(wire[i])

-----------------------------------------------------------------------------
(* C10 *)

\* The label written in the pieces `x`.
LabelIn(x) == CHOOSE l \in Labels : \E i \in 1..Len(x) : x[i] = l

\* C10: when the pre-check found nothing and the panel answers addClient
\* with success=false and a message holding "Duplicate email: <label>",
\* create_client raises a duplicate error, as the pre-check does, that carries
\* the label of the message, whatever label was asked for.
C10_ProviderDuplicate ==
    \A pre \in Prefixes, x \in LabelPieces, suf \in Suffixes :
        (/\ OpDone("create_client")
         /\ \E i \in 1..Len(wire) : IsAddClientRequest(wire[i])
         /\ outcome.kind = "return"
         /\ ~outcome.val.success
         /\ outcome.val.msg = DupMsg(pre, x, suf)) =>
            /\ result.kind = "raise"
            /\ IsDuplicateClientError(result.err)
            /\ result.err.args = <<LabelIn(x)>>

\* create_client for label "a" ended on the panel's duplicate message for "b".
C10_Witness ==
    /\ OpDone("create_client")
    /\ op.email = "a"
    /\ \E i \in 1..Len(wire) : IsAddClientRequest(wire[i])
    /\ outcome.kind = "return"
    /\ ~outcome.val.success
    /\ outcome.val.msg = DupMsg(<<"Something went wrong!", " ">>, <<"b">>, <<"\n">>)
    /\ result.kind = "raise"
    /\ IsDuplicateClientError(result.err)
    /\ result.err.args = <<"b">>

-----------------------------------------------------------------------------
(* C11 *)

\* C11 as stated, read in favour of the code: when create_client succeeded
\* for a label and the next operation is create_client for the same label,
\* for any inbound, that second call fails; and when its scan was given the
\* inbounds the panel holds, it fails with the duplicate error.
C11_SecondCreateFails ==
    (/\ OpDone("create_client")
     /\ prev.name = "create_client"
     /\ prev.ok
     /\ prev.email = op.email) =>
        /\ result.kind = "raise"
        /\ op.inbounds = JList(before) => IsDuplicateClientError(result.err)

-----------------------------------------------------------------------------
(* C12 *)

\* C12 as stated: from a panel whose labels are unique, whatever lifecycle
\* operations one instance runs, no label comes to occur in two client
\* entries of the panel.
C12_LabelsStayUnique == UniqueLabels(panel)

-----------------------------------------------------------------------------
(* C13 *)

\* C13 as stated: when two instances run create_client for the same label,
\* their scans and addClient writes interleaved in any order (the scans
\* being given the inbounds the panel holds), at most one of the two calls
\* succeeds and the label never occurs in two client entries of the panel.
C13_AtMostOneSucceeds ==
    (/\ peer.phase # "none"
     /\ op.name = "create_client"
     /\ op.email = peer.email
     /\ op.inbounds # JList(<<>>)) =>
        /\ ~(OpDone("create_client") /\ result.kind = "return"
             /\ peer.phase = "done" /\ peer.result.kind = "return")
        /\ UniqueLabels(panel)

-----------------------------------------------------------------------------
(* The approval handler: bot/handlers/admin.py, approve_request *)

\* The texts of the model that hold "duplicate" in some case: the panel
\* messages with the signal.  The two duplicate messages of create_client
\* (lines 175 and 219 of xui_client.py) are Russian sentences without that
\* word, and no label or remark of the model holds it.
DuplicateTexts == {Text(m) : m \in {x \in AddMessages : HasSignal(x)}}

\* Line 160 of admin.py on str(e):
\* "Duplicate email" in error_msg or "duplicate" in error_msg.lower()
MentionsDuplicate(e) == \E i \in 1..Len(e.args) : e.args[i] \in DuplicateTexts

\* Lines 119-170 of admin.py: what approve_request answers the admin with,
\* given how create_client ended.
approve_request(res) ==
    IF res.kind = "return" THEN "approved"
    ELSE IF res.err.cls # "XUIClientError" THEN "error"
    ELSE IF MentionsDuplicate(res.err) THEN "duplicate"
    ELSE "generic"

-----------------------------------------------------------------------------
(* C14 *)

\* create_client failed on a duplicate label: the pre-check found the label,
\* or the panel's message to addClient held the duplicate signal.
IsDuplicateFailure ==
    /\ OpDone("create_client")
    /\ result.kind = "raise"
    /\ \/ /\ op.inbounds.kind = "list"
          /\ LabelListed(op.inbounds.items, op.email)
       \/ /\ \E i \in 1..Len(wire) : IsAddClientRequest(wire[i])
          /\ outcome.kind = "return"
          /\ ~outcome.val.success
          /\ HasSignal(outcome.val.msg)

\* C14 as stated: the approval handler shows its duplicate message exactly
\* when create_client failed on a duplicate label, and its generic message on
\* every other failure that create_client reports with its own error type.
C14_DuplicateMessageIffDuplicate ==
    (OpDone("create_client") /\ result.kind = "raise"
        /\ result.err.cls = "XUIClientError") =>
        /\ IsDuplicateFailure <=> approve_request(result) = "duplicate"
        /\ ~IsDuplicateFailure <=> approve_request(result) = "generic"

-----------------------------------------------------------------------------
(* C15 *)

\* The decoded answer holds a traffic record: a non-empty "obj" dict of a
\* success envelope.
HasTrafficRecord(val) ==
    /\ val.success
    /\ val.obj.kind = "obj"
    /\ val.obj.items[1] # TrafficRecord(<<>>, <<>>, FALSE)

\* C15: when the panel's answer to get_client_traffic decodes and holds no
\* traffic record, the operation returns the sample up 0, down 0, total 0 as
\* a value; when it holds one, the operation returns its counters (0 for a
\* missing one) and a total equal to their sum.
C15_ZeroSampleOrSum ==
    (OpDone("get_client_traffic") /\ outcome.kind = "return") =>
        /\ result.kind = "return"
        /\ result.val.total = result.val.up + result.val.down
        /\ IF HasTrafficRecord(outcome.val)
           THEN LET t == outcome.val.obj.items[1]
                IN  /\ result.val.up = (IF Len(t.up) = 1 THEN t.up[1] ELSE 0)
                    /\ result.val.down = (IF Len(t.down) = 1 THEN t.down[1] ELSE 0)
           ELSE result.val = [up |-> 0, down |-> 0, total |-> 0]

\* The panel answered success with a null "obj" and the zero sample was
\* returned.
C15_Witness ==
    /\ OpDone("get_client_traffic")
    /\ outcome.kind = "return"
    /\ outcome.val.success
    /\ outcome.val.obj = JNull
    /\ result = Return([up |-> 0, down |-> 0, total |-> 0])

-----------------------------------------------------------------------------
(* C16 *)

IsUpdateClientRequest(req) == \E u \in Uuids : req.url = base_url \o UpdateClientEndpoint(u)

IsGetRequest(req) ==
    req.method = "GET" /\ \E i \in InboundIds : req.url = base_url \o GetEndpoint(i)

IsClientNotFoundError(e) == e.cls = "XUIClientError" /\ e.fmt = "Client not found: {}"

\* The answer of get_inbound held an inbound whose settings decode.
InboundDecoded(val) ==
    val.success /\ val.obj.kind = "obj" /\ val.obj.items[1].settings.wf

\* No entry of the decoded inbound has the label or the credential id.
NoEntryMatches(val, email, uuid) ==
    \A j \in 1..Len(val.obj.items[1].settings.clients) :
        /\ val.obj.items[1].settings.clients[j].email # email
        /\ val.obj.items[1].settings.clients[j].id # uuid

\* C16: when the inbound that update_client_status fetched decodes and none
\* of its client entries has the given label or the given credential id, the
\* operation fails with the client-not-found error (naming the label) and the
\* only requests it has sent are the fetch of the inbound and the logins of
\* the session: no request goes to the updateClient endpoint, nothing is
\* written to the panel; and an updateClient request is only ever sent after
\* an entry matched.
C16_NotFoundNoUpdate ==
    /\ (/\ op.name = "update_client_status"
         /\ op.phase # "fetch"
         /\ InboundDecoded(op.inbound_data)
         /\ NoEntryMatches(op.inbound_data, op.email, op.uuid)) =>
            /\ op.phase = "done"
            /\ result.kind = "raise"
            /\ IsClientNotFoundError(result.err)
            /\ result.err.args = <<op.email>>
            /\ \A i \in 1..Len(wire) : IsGetRequest(wire[i]) \/ IsLoginRequest(wire[i])
    /\ (/\ op.name = "update_client_status"
         /\ \E i \in 1..Len(wire) : IsUpdateClientRequest(wire[i])) =>
            /\ InboundDecoded(op.inbound_data)
            /\ ~NoEntryMatches(op.inbound_data, op.email, op.uuid)

\* update_client_status ended on an inbound that holds clients, none of them
\* the one asked for.
C16_Witness ==
    /\ OpDone("update_client_status")
    /\ op.email = "b"
    /\ op.uuid = "u-x"
    /\ InboundDecoded(op.inbound_data)
    /\ op.inbound_data.obj.items[1].settings.clients = <<Client("u-a", "a", TRUE)>>
    /\ result.kind = "raise"
    /\ IsClientNotFoundError(result.err)
    /\ Len(wire) = 1

-----------------------------------------------------------------------------
(* C17 *)

\* The inbound holds exactly one entry with the label and the credential id,
\* and its enabled flag is `e`.
HasClientWithFlag(p, inbound_id, email, uuid, e) ==
    /\ inbound_id \in DOMAIN p
    /\ \E j \in 1..Len(p[inbound_id].settings.clients) :
           /\ p[inbound_id].settings.clients[j] = Client(uuid, email, e)
           /\ \A k \in 1..Len(p[inbound_id].settings.clients) :
                  (p[inbound_id].settings.clients[k].id = uuid
                   \/ p[inbound_id].settings.clients[k].email = email) => k = j

\* The operation that just ended and the one before it are two successful
\* update_client_status calls for the same client, the first with the
\* opposite of the enabled flag the client had, the second with that flag.
ToggledTwice(e) ==
    /\ OpDone("update_client_status")
    /\ result.kind = "return"
    /\ op.enable = e
    /\ prev.name = "update_client_status"
    /\ prev.ok
    /\ prev.email = op.email
    /\ prev.uuid = op.uuid
    /\ prev.inbound_id = op.inbound_id
    /\ prev.enable = ~e
    /\ HasClientWithFlag(prev.before, op.inbound_id, op.email, op.uuid, e)

\* C17: for a client of an inbound whose enabled flag is e, after
\* update_client_status with enable = not e and then with enable = e, both
\* succeeding and nobody else writing, the panel holds that client with the
\* flag e again (and with the flag not e in between).
C17_ToggleTwice ==
    \A e \in BOOLEAN :
        ToggledTwice(e) =>
            /\ HasClientWithFlag(before, op.inbound_id, op.email, op.uuid, ~e)
            /\ HasClientWithFlag(panel, op.inbound_id, op.email, op.uuid, e)

\* A disabled client was enabled and disabled again.
C17_Witness ==
    /\ ToggledTwice(FALSE)
    /\ Len(wire) = 2
    /\ IsUpdateClientRequest(wire[2])
    /\ wire[2].body.enable = FALSE
    /\ HasClientWithFlag(panel, op.inbound_id, op.email, op.uuid, FALSE)

-----------------------------------------------------------------------------
(* C18 *)

\* C18 as stated: a public operation ends with a value or with an error of
\* the core's own error type, also when the settings of an inbound do not
\* decode or the answer holds no object.
C18_ValueOrTypedError ==
    (op.phase = "done" /\ result.kind = "raise") => result.err.cls = "XUIClientError"

-----------------------------------------------------------------------------
(* C19 *)

\* Every settings blob of the listing decodes.
WellFormedListing(inbounds) == \A i \in 1..Len(inbounds) : inbounds[i].settings.wf

\* The inbound at position i holds a client with the label.
HoldsLabel(inbounds, i, email) ==
    /\ inbounds[i].settings.wf
    /\ \E j \in 1..Len(inbounds[i].settings.clients) :
           inbounds[i].settings.clients[j].email = email

\* The value names the first entry with the label of the inbound at position i.
IsFirstEntryOf(val, inbounds, i, email) ==
    /\ val.found
    /\ val.inbound_id = inbounds[i].id
    /\ val.inbound_remark \in {inbounds[i].remark, "Unknown"}
    /\ \E j \in 1..Len(inbounds[i].settings.clients) :
           /\ inbounds[i].settings.clients[j] = val.client
           /\ val.client.email = email
           /\ \A k \in 1..(j - 1) : inbounds[i].settings.clients[k].email # email

\* C19: on a listing whose settings all decode, find_client_in_all_inbounds
\* returns the inbound and the client entry of the first inbound, in list
\* order, that holds the label, and returns not-found exactly when no inbound
\* holds it.
C19_FirstMatchInListOrder ==
    (/\ OpDone("find_client_in_all_inbounds")
     /\ op.inbounds.kind = "list"
     /\ WellFormedListing(op.inbounds.items)) =>
        /\ result.kind = "return"
        /\ result.val.found <=> LabelListed(op.inbounds.items, op.email)
        /\ \A i \in 1..Len(op.inbounds.items) :
               (/\ HoldsLabel(op.inbounds.items, i, op.email)
                /\ \A k \in 1..(i - 1) : ~HoldsLabel(op.inbounds.items, k, op.email)) =>
                   IsFirstEntryOf(result.val, op.inbounds.items, i, op.email)

\* The label is held by both listed inbounds and the first one was returned,
\* with the first of its entries that has the label.
C19_Witness ==
    /\ OpDone("find_client_in_all_inbounds")
    /\ op.email = "a"
    /\ op.inbounds.kind = "list"
    /\ Len(op.inbounds.items) = 2
    /\ WellFormedListing(op.inbounds.items)
    /\ HoldsLabel(op.inbounds.items, 1, "a")
    /\ HoldsLabel(op.inbounds.items, 2, "a")
    /\ result.kind = "return"
    /\ result.val.found
    /\ result.val.inbound_id = 1
    /\ result.val.client = Client("u-a2", "a", FALSE)

-----------------------------------------------------------------------------
(* C20 *)

\* C20: on a listing with an inbound whose settings do not decode, the scan
\* does not fail: that inbound is skipped, and the call returns the match of
\* the first inbound with decodable settings that holds the label, also when
\* it comes after the inbound that was skipped, or not-found when none does.
C20_MalformedSkipped ==
    (/\ OpDone("find_client_in_all_inbounds")
     /\ op.inbounds.kind = "list"
     /\ ~WellFormedListing(op.inbounds.items)) =>
        /\ result.kind = "return"
        /\ result.val.found <=> LabelListed(op.inbounds.items, op.email)
        /\ \A i \in 1..Len(op.inbounds.items) :
               (/\ HoldsLabel(op.inbounds.items, i, op.email)
                /\ \A k \in 1..(i - 1) : ~HoldsLabel(op.inbounds.items, k, op.email)) =>
                   /\ result.val.inbound_id = op.inbounds.items[i].id
                   /\ result.val.client.email = op.email

\* The first listed inbound does not decode and the match of the second one
\* was returned.
C20_Witness ==
    /\ OpDone("find_client_in_all_inbounds")
    /\ op.inbounds.kind = "list"
    /\ Len(op.inbounds.items) = 2
    /\ ~op.inbounds.items[1].settings.wf
    /\ HoldsLabel(op.inbounds.items, 2, op.email)
    /\ result.kind = "return"
    /\ result.val.found
    /\ result.val.inbound_id = 2

-----------------------------------------------------------------------------
(* C21 *)

IsDelClientRequest(req) ==
    \E i \in InboundIds, u \in Uuids \cup {"u-a2"} : req.url = base_url \o DelClientEndpoint(i, u)

\* C21: delete_client_from_all_inbounds returns False, without raising and
\* without a delClient request, when the listing it scanned holds the label
\* in no inbound; and it returns True only when the label was found and the
\* delClient request for the found entry's credential id and inbound id was
\* answered with success.
C21_DeleteFromAllBoolean ==
    OpDone("delete_client_from_all_inbounds") =>
        /\ (op.inbounds.kind = "list" /\ ~LabelListed(op.inbounds.items, op.email)) =>
               /\ result = Return(Envelope(FALSE, <<>>, JNull))
               /\ \A i \in 1..Len(wire) : ~IsDelClientRequest(wire[i])
        /\ result = Return(Envelope(TRUE, <<>>, JNull)) =>
               /\ op.inbounds.kind = "list"
               /\ LabelListed(op.inbounds.items, op.email)
               /\ op.client_info.found
               /\ op.client_info.client.email = op.email
               /\ wire[Len(wire)].method = "POST"
               /\ wire[Len(wire)].url =
                      base_url \o DelClientEndpoint(op.client_info.inbound_id,
                                                    op.client_info.client.id)
               /\ outcome.kind = "return"
               /\ outcome.val.success

\* The label was found in the second inbound, under a credential id of its
\* own, and its deletion was answered with success.
C21_Witness ==
    /\ OpDone("delete_client_from_all_inbounds")
    /\ result = Return(Envelope(TRUE, <<>>, JNull))
    /\ op.client_info.inbound_id = 2
    /\ op.client_info.client.id = "u-a2"
    /\ IsDelClientRequest(wire[Len(wire)])

-----------------------------------------------------------------------------
(* C22 *)

\* C22 as stated: once delete_client_from_all_inbounds has returned True, no
\* inbound of the panel holds a client with the label, also when the label
\* was in more than one inbound.
C22_DeletedEverywhere ==
    (/\ OpDone("delete_client_from_all_inbounds")
     /\ result = Return(Envelope(TRUE, <<>>, JNull))) =>
        Occurrences(panel, op.email) = 0

-----------------------------------------------------------------------------
(* C23 *)

\* C23 as stated: when an executor call of a public operation raised (a
\* transport, parse or response error), the operation ends with that same
\* error; it never ends with a normal return value.
C23_ErrorsPropagate ==
    (/\ op.name # "idle"
     /\ op.phase = "done"
     /\ outcome.kind = "raise") =>
        result = outcome

-----------------------------------------------------------------------------
(* Readers of a get_client_link call and of the link it returned *)

\* The inbound object get_inbound gave.
LinkInbound == link.fetched.val.obj.items[1]

\* The link the call returned.
LinkMade == link.result.val

\* A call that ended with a link of the scheme.
LinkBuilt(scheme) ==
    /\ link.phase = "done"
    /\ link.result.kind = "return"
    /\ LinkMade.scheme = scheme

\* The transport and the security get_client_link reads from the stream
\* settings.
LinkNetwork == IF LinkInbound.streamSettings.network = <<>> THEN "tcp"
               ELSE LinkInbound.streamSettings.network[1]

LinkSecurity == IF LinkInbound.streamSettings.security = <<>> THEN "none"
                ELSE LinkInbound.streamSettings.security[1]

HasParam(query, k) == \E i \in 1..Len(query) : query[i][1] = k

ParamOf(query, k) == query[CHOOSE i \in 1..Len(query) : query[i][1] = k][2]

\* Percent-decoding, once.
RECURSIVE unquote(_)
unquote(s) ==
    IF Len(s) = 0 THEN <<>>
    ELSE IF Len(s) >= 4 /\ SubSeq(s, 1, 4) = <<"%", "C3", "%", "A9">>
    THEN <<"U+00E9">> \o unquote(SubSeq(s, 5, Len(s)))
    ELSE IF Len(s) >= 2 /\ s[1] = "%" /\ s[2] \in {"20", "25", "2F", "3A", "2C", "2B"}
    THEN <<CASE s[2] = "20" -> " " [] s[2] = "25" -> "%" [] s[2] = "2F" -> "/"
             [] s[2] = "3A" -> ":" [] s[2] = "2C" -> "," [] OTHER -> "+">> \o
         unquote(SubSeq(s, 3, Len(s)))
    ELSE <<s[1]>> \o unquote(Tail(s))

-----------------------------------------------------------------------------
(* C24 *)

-----------------------------------------------------------------------------
(* C25 *)

\* C25 as stated: in every link the server address is the inbound's listen
\* address, unless that is empty (or missing) or "0.0.0.0", in which case it
\* is the host of the panel's base address, without scheme, port and path.
C25_ServerAddress ==
    (link.phase = "done" /\ LinkMade # NoLink) =>
        LET server == IF LinkMade.scheme = "vmess://"
                      THEN ParamOf(LinkMade.b64, "add")[1]
                      ELSE LinkMade.server
        IN  server = IF LinkInbound.listen \in {<<>>, <<"">>, <<"0.0.0.0">>}
                     THEN link.self.base_url[2]
                     ELSE LinkInbound.listen[1]

-----------------------------------------------------------------------------
(* C26 *)

\* C26 as stated: a vless link carries type and encryption=none; for tls it
\* carries security=tls with sni and alpn and none of pbk, fp, sid, spx; for
\* reality it carries security=reality with pbk, fp, sni (the first server
\* name), sid (the first short id) and spx, and no alpn.
C26_AsStated ==
    LinkBuilt("vless://") =>
        LET q == LinkMade.query
            tls == LinkInbound.streamSettings.tlsSettings
            reality == LinkInbound.streamSettings.realitySettings
        IN  /\ HasParam(q, "type")
            /\ HasParam(q, "encryption") /\ ParamOf(q, "encryption") = <<"none">>
            /\ LinkSecurity = "tls" =>
                   /\ HasParam(q, "security") /\ ParamOf(q, "security") = <<"tls">>
                   /\ HasParam(q, "sni")
                   /\ HasParam(q, "alpn")
                   /\ \A k \in {"pbk", "fp", "sid", "spx"} : ~HasParam(q, k)
            /\ LinkSecurity = "reality" =>
                   /\ HasParam(q, "security") /\ ParamOf(q, "security") = <<"reality">>
                   /\ \A k \in {"pbk", "fp", "sni", "sid", "spx"} : HasParam(q, k)
                   /\ ParamOf(q, "sni") = reality.serverNames[1]
                   /\ ParamOf(q, "sid") = reality.shortIds[1]
                   /\ ~HasParam(q, "alpn")

\* C26: a vless link carries type and encryption=none; for tls it carries
\* security=tls, sni and alpn each exactly when the setting is not empty, and
\* none of pbk, fp, sid, spx; for reality it carries security=reality and
\* pbk, fp, sni (the first server name), sid (the first short id) and spx,
\* each exactly when its setting is not empty, and no alpn.
C26_SecurityParams ==
    LinkBuilt("vless://") =>
        LET q == LinkMade.query
            tls == LinkInbound.streamSettings.tlsSettings
            reality == LinkInbound.streamSettings.realitySettings
        IN  /\ HasParam(q, "type") /\ ParamOf(q, "type") = <<LinkNetwork>>
            /\ HasParam(q, "encryption") /\ ParamOf(q, "encryption") = <<"none">>
            /\ LinkSecurity = "tls" =>
                   /\ HasParam(q, "security") /\ ParamOf(q, "security") = <<"tls">>
                   /\ HasParam(q, "sni") <=> tls.serverName # <<>>
                   /\ HasParam(q, "sni") => ParamOf(q, "sni") = tls.serverName
                   /\ HasParam(q, "alpn") <=> tls.alpn # <<>>
                   /\ HasParam(q, "alpn") => ParamOf(q, "alpn") = Join(tls.alpn, ",")
                   /\ \A k \in {"pbk", "fp", "sid", "spx"} : ~HasParam(q, k)
            /\ LinkSecurity = "reality" =>
                   /\ HasParam(q, "security") /\ ParamOf(q, "security") = <<"reality">>
                   /\ HasParam(q, "pbk") <=> reality.publicKey # <<>>
                   /\ HasParam(q, "pbk") => ParamOf(q, "pbk") = reality.publicKey
                   /\ HasParam(q, "fp") <=> reality.fingerprint # <<>>
                   /\ HasParam(q, "fp") => ParamOf(q, "fp") = reality.fingerprint
                   /\ HasParam(q, "sni") <=> reality.serverNames # <<>>
                   /\ HasParam(q, "sni") => ParamOf(q, "sni") = reality.serverNames[1]
                   /\ HasParam(q, "sid") <=> reality.shortIds # <<>>
                   /\ HasParam(q, "sid") => ParamOf(q, "sid") = reality.shortIds[1]
                   /\ HasParam(q, "spx") <=> reality.spiderX # <<>>
                   /\ ~HasParam(q, "alpn")

\* The example of the specification: reality with serverNames starting with
\* example.com, shortIds starting with ab and publicKey K gave
\* sni=example.com, sid=ab, pbk=K and no alpn.
C26_Witness ==
    /\ LinkBuilt("vless://")
    /\ LinkSecurity = "reality"
    /\ ParamOf(LinkMade.query, "security") = <<"reality">>
    /\ HasParam(LinkMade.query, "sni") /\ ParamOf(LinkMade.query, "sni") = <<"example.com">>
    /\ HasParam(LinkMade.query, "sid") /\ ParamOf(LinkMade.query, "sid") = <<"ab">>
    /\ HasParam(LinkMade.query, "pbk") /\ ParamOf(LinkMade.query, "pbk") = <<"K">>
    /\ ~HasParam(LinkMade.query, "alpn")
    /\ LinkInbound.streamSettings.tlsSettings.alpn # <<>>

-----------------------------------------------------------------------------
(* C27 *)

\* C27: in a vless link, path appears exactly for the ws transport and host
\* only for ws with a Host header configured; serviceName appears only for
\* grpc and headerType only for tcp whose header type is not none; no other
\* transport adds any of them, whatever settings of other transports the
\* stream settings hold.
C27_TransportExtras ==
    LinkBuilt("vless://") =>
        LET q == LinkMade.query
            stream == LinkInbound.streamSettings
        IN  /\ HasParam(q, "path") <=> LinkNetwork = "ws"
            /\ HasParam(q, "host") <=> (LinkNetwork = "ws" /\ stream.wsSettings.host # <<>>)
            /\ HasParam(q, "host") => ParamOf(q, "host") = stream.wsSettings.host
            /\ HasParam(q, "serviceName") <=>
                   (LinkNetwork = "grpc" /\ stream.grpcSettings.serviceName # <<>>)
            /\ HasParam(q, "headerType") <=>
                   (LinkNetwork = "tcp" /\ stream.tcpSettings.headerType \notin {<<>>, <<"none">>})

\* A grpc link was built from stream settings that also hold ws and tcp
\* settings: it carries serviceName and neither path, host nor headerType.
C27_Witness ==
    /\ LinkBuilt("vless://")
    /\ LinkNetwork = "grpc"
    /\ LinkInbound.streamSettings.wsSettings.host # <<>>
    /\ LinkInbound.streamSettings.tcpSettings.headerType = <<"http">>
    /\ HasParam(LinkMade.query, "serviceName")
    /\ \A k \in {"path", "host", "headerType"} : ~HasParam(LinkMade.query, k)

-----------------------------------------------------------------------------
(* C28 *)

\* C28: the JSON object a vmess link's payload decodes to has exactly the
\* keys v, ps, add, port, id, aid, net, type, host, path, tls; net is the
\* transport; host and path are non-empty only for ws, where they are those
\* of the ws settings; tls is "tls" exactly when the security is tls and
\* empty otherwise.
C28_VmessPayload ==
    LinkBuilt("vmess://") =>
        LET config == LinkMade.b64
            ws == LinkInbound.streamSettings.wsSettings
        IN  /\ [i \in 1..Len(config) |-> config[i][1]] =
                   <<"v", "ps", "add", "port", "id", "aid", "net", "type", "host", "path", "tls">>
            /\ ParamOf(config, "net") = <<LinkNetwork>>
            /\ LinkNetwork # "ws" =>
                   ParamOf(config, "host") = <<>> /\ ParamOf(config, "path") = <<>>
            /\ LinkNetwork = "ws" =>
                   /\ ParamOf(config, "host") = ws.host
                   /\ ParamOf(config, "path") = IF ws.path = <<>> THEN <<"/">> ELSE ws.path[1]
            /\ ParamOf(config, "tls") = IF LinkSecurity = "tls" THEN <<"tls">> ELSE <<>>

\* The example of the specification: ws, path /foo, host h.example.
C28_Witness ==
    /\ LinkBuilt("vmess://")
    /\ LinkInbound.streamSettings.network = <<"ws">>
    /\ ParamOf(LinkMade.b64, "net") = <<"ws">>
    /\ ParamOf(LinkMade.b64, "path") = <<"/", "foo">>
    /\ ParamOf(LinkMade.b64, "host") = <<"h.example">>

-----------------------------------------------------------------------------
(* C29 *)

\* C29: a trojan link is trojan://{password}@{server}:{port}?...#{label} with
\* the password of the client that has the label; its query always carries
\* type and security, and carries sni exactly when the security is tls and
\* a server name is configured.
C29_TrojanLink ==
    LinkBuilt("trojan://") =>
        LET q == LinkMade.query
            tls == LinkInbound.streamSettings.tlsSettings
        IN  /\ \E j \in 1..Len(LinkInbound.settings.clients) :
                   /\ LinkInbound.settings.clients[j].email = link.email
                   /\ LinkInbound.settings.clients[j].password = LinkMade.user
            /\ LinkMade.port = ToString(LinkInbound.port)
            /\ HasParam(q, "type") /\ ParamOf(q, "type") = <<LinkNetwork>>
            /\ HasParam(q, "security") /\ ParamOf(q, "security") = <<LinkSecurity>>
            /\ HasParam(q, "sni") <=> (LinkSecurity = "tls" /\ tls.serverName # <<>>)
            /\ HasParam(q, "sni") => ParamOf(q, "sni") = tls.serverName
            /\ unquote(LinkMade.fragment) = link.email

\* A trojan link of a tls inbound with a server name: it carries the
\* client's password, type, security=tls and sni.
C29_Witness ==
    /\ LinkBuilt("trojan://")
    /\ LinkSecurity = "tls"
    /\ LinkMade.user = "pw"
    /\ ParamOf(LinkMade.query, "security") = <<"tls">>
    /\ HasParam(LinkMade.query, "sni")
    /\ ParamOf(LinkMade.query, "sni") = <<"example.com">>

-----------------------------------------------------------------------------
(* C30 *)

\* C30 as stated: percent-decoding once the fragment of a vless or trojan
\* link gives back the label, and percent-decoding once the path value of a
\* vless link of the ws transport gives back the path of the ws settings.
C30_DecodesOnce ==
    (LinkBuilt("vless://") \/ LinkBuilt("trojan://")) =>
        /\ unquote(LinkMade.fragment) = link.email
        /\ (LinkMade.scheme = "vless://" /\ LinkNetwork = "ws") =>
               unquote(ParamOf(LinkMade.query, "path")) =
                   IF LinkInbound.streamSettings.wsSettings.path = <<>> THEN <<"/">>
                   ELSE LinkInbound.streamSettings.wsSettings.path[1]

-----------------------------------------------------------------------------
(* C31 *)

\* The scoped session of the instance has ended: its `async with` statement
\* was left through __aexit__, or __aenter__ raised and the statement was
\* left without its body and without __aexit__.
SessionEnded == pc \in {"exited", AEnterOnLoginError}

\* C31 as stated: on every path on which the scoped session ends, also when
\* an operation of the body raised and when the login of the session start
\* failed, the connection resource acquired at the start has been released:
\* no ended session holds an open AsyncClient.
C31_ReleasedAtSessionEnd == SessionEnded => client # "open"

-----------------------------------------------------------------------------
(* update_client_status against inbounds that hold several clients *)

\* The client entries an inbound may hold when a run starts.
UpdateEntries ==
    {Client(id, email, e) : id \in Uuids, email \in Labels, e \in BOOLEAN}

\* The panels a run may start from: inbound 1 holds up to two clients with
\* different labels and different credential ids, inbound 2 none.
UpdatePanels ==
    {[i \in InboundIds |-> Inbound(i, RemarkOf(i), Settings(IF i = 1 THEN cs ELSE <<>>))]
        : cs \in {<<>>} \cup {<<c>> : c \in UpdateEntries}
                 \cup {<<c[1], c[2]>> : c \in {d \in UpdateEntries \X UpdateEntries :
                                                  d[1].id # d[2].id /\ d[1].email # d[2].email}}}

\* The only operation of the session is update_client_status with any label
\* and any credential id: the two are separate arguments (lines 244-245) and
\* the handlers take them from the local user record.
UpdateClientStatusAny ==
    /\ OnlyOp
    /\ \E email \in Labels, uuid \in Uuids, inbound_id \in InboundIds, enable \in BOOLEAN :
         UpdateClientStatusStart(email, uuid, inbound_id, enable)

InitUpdate ==
    /\ NewInstance
    /\ panel \in UpdatePanels
    /\ before = panel
    /\ prev = NoPrev
    /\ peer = [phase |-> "none"]
    /\ link = [phase |-> "none"]
    /\ bot = [phase |-> "none"]

NextUpdate ==
    \/ AEnter
    \/ AEnterLogin
    \/ UpdateClientStatusAny
    \/ UpdateClientStatusFetched
    \/ UpdateClientStatusUpdated
    \/ PanelRespond
    \/ AExit

SpecUpdate == InitUpdate /\ [][NextUpdate]_vars

-----------------------------------------------------------------------------
(* C34 *)

\* The position of the entry the loop of lines 266-270 stops at, in the
\* clients of the inbound the operation fetched.
LocatedEntry ==
    LET clients == op.inbound_data.obj.items[1].settings.clients
    IN  CHOOSE j \in 1..Len(clients) :
            /\ MatchesClient(clients[j], op.email, op.uuid)
            /\ \A k \in 1..(j - 1) : ~MatchesClient(clients[k], op.email, op.uuid)

\* C34 as stated: when update_client_status succeeds, the entry whose
\* enabled flag the panel set is the entry the operation located by
\* label-or-credential match in the inbound it fetched, also when that entry
\* has the label and a credential id other than the one passed in: the panel
\* is the one the operation started from with the located entry's flag set to
\* the value asked for.
C34_LocatedEntryUpdated ==
    (OpDone("update_client_status") /\ result.kind = "return") =>
        panel = [before EXCEPT ![op.inbound_id].settings.clients[LocatedEntry].enable =
                                   op.enable]

-----------------------------------------------------------------------------
(* Two independent instances against the same panel.  The second instance
   (`peer`) runs the same code as the first: it enters its own scoped
   session, runs one delete_client and leaves. *)

\* An attribute stored by every instance at once, as a class attribute or a
\* module-level client would be.
OtherInstanceAttr_Shared(own, written) == written

\* Lines 24-25, 29 and 126: session_cookie and client are attributes of the
\* instance, created in __init__ and assigned through `self`; `own` is what an
\* instance holds after another instance has stored `written` in its own.
OtherInstanceAttr(own, written) == own

NewPeer ==
    [phase |-> "new", client |-> "None", session_cookie |-> NoneVal, frame |-> NoFrame,
     result |-> NoOutcome]

\* A step of the second instance that leaves it as `p2`.
PeerStep(p2) ==
    /\ peer' = p2
    /\ client' = OtherInstanceAttr(client, p2.client)
    /\ session_cookie' = OtherInstanceAttr(session_cookie, p2.session_cookie)
    /\ UNCHANGED <<pc, frame, wire, frame0, answers, outcome, log, ncalls, op, result, before,
                   prev, link, bot>>

\* __aenter__ (lines 27-34) of the second instance up to its await of login().
PeerEnter ==
    /\ peer.phase = "new"
    /\ PeerStep([peer EXCEPT !.phase = "aenter", !.client = "open"])
    /\ UNCHANGED panel

\* The login of the second instance's session start ends (lines 34-35).
PeerLogin ==
    /\ peer.phase = "aenter"
    /\ \E r \in LoginAnswers :
         LET res == login(peer.session_cookie, r)
         IN  PeerStep([peer EXCEPT !.session_cookie = res.session_cookie,
                                   !.result = IF res.outcome.kind = "raise"
                                              THEN res.outcome ELSE NoOutcome,
                                   !.phase = IF res.outcome.kind = "raise"
                                             THEN AEnterOnLoginError ELSE "body"])
    /\ UNCHANGED panel

\* The request the second instance has on the wire (lines 54-65).
PeerRequest == BeginRequest(peer.client, peer.session_cookie, peer.frame).req

\* delete_client of the second instance (lines 291-303) up to its await.
PeerCall ==
    /\ peer.phase = "body"
    /\ \E inbound_id \in InboundIds :
         PeerStep([peer EXCEPT !.phase = "await",
                               !.frame = Frame("POST", DelClientEndpoint(inbound_id, "u-a"),
                                               "{}", TRUE)])
    /\ UNCHANGED panel

\* The exchange of the second instance ends (lines 69-90 and 305-310): the
\* panel serves it, fails, or says that the session has expired.
PeerResponded ==
    /\ peer.phase = "await"
    /\ \E a \in PanelAnswers(PeerRequest, panel)
                  \cup {[r |-> HttpResponse(401, BodyHtml.text, FALSE, NoVal, <<>>),
                         panel |-> panel]} :
         LET h == HandleResponse(peer.frame, a.r)
         IN  /\ panel' = a.panel
             /\ PeerStep(CASE h.act = "relogin" -> [peer EXCEPT !.phase = "relogin"]
                           [] h.act = "raise" ->
                                  [peer EXCEPT !.phase = "done", !.frame = NoFrame,
                                               !.result = Raise(h.err)]
                           [] h.act = "return" ->
                                  [peer EXCEPT !.phase = "done", !.frame = NoFrame,
                                               !.result = WriteResult("delete", h.val)])

\* The re-login of the second instance ends (lines 75-76).
PeerReLogin ==
    /\ peer.phase = "relogin"
    /\ \E r \in LoginAnswers :
         LET res == login(peer.session_cookie, r)
         IN  PeerStep(IF res.outcome.kind = "raise"
                      THEN [peer EXCEPT !.session_cookie = res.session_cookie,
                                        !.phase = "done", !.frame = NoFrame,
                                        !.result = res.outcome]
                      ELSE [peer EXCEPT !.session_cookie = res.session_cookie,
                                        !.phase = "await",
                                        !.frame = Frame(peer.frame.method, peer.frame.endpoint,
                                                        peer.frame.data, RetryFlagOfRetry)])
    /\ UNCHANGED panel

\* __aexit__ of the second instance (lines 37-40).
PeerExit ==
    /\ peer.phase \in {"body", "done"}
    /\ PeerStep([peer EXCEPT !.phase = "exited",
                             !.client = IF peer.client = "open" THEN "closed" ELSE peer.client])
    /\ UNCHANGED panel

\* The panel answers the first instance that its session has expired
\* (status 401, line 73).
SessionExpired ==
    /\ pc = "await"
    /\ Responded(HttpResponse(401, BodyHtml.text, FALSE, NoVal, <<>>))
    /\ UNCHANGED world

\* The panel holds the client both instances are going to delete.
InitPeers ==
    /\ NewInstance
    /\ panel = [EmptyPanel EXCEPT ![1].settings.clients = <<Client("u-a", "a", TRUE)>>]
    /\ before = panel
    /\ prev = NoPrev
    /\ peer = NewPeer
    /\ link = [phase |-> "none"]
    /\ bot = [phase |-> "none"]

\* The steps of the two instances interleaved in any order.
NextPeers ==
    \/ AEnter
    \/ AEnterLogin
    \/ DeleteClient
    \/ DeleteClientDeleted
    \/ PanelRespond
    \/ SessionExpired
    \/ ReLogin
    \/ AExit
    \/ PeerEnter
    \/ PeerLogin
    \/ PeerCall
    \/ PeerResponded
    \/ PeerReLogin
    \/ PeerExit

SpecPeers == InitPeers /\ [][NextPeers]_vars

-----------------------------------------------------------------------------
(* C32 *)

\* The first instance took a step (its coroutine moved, or it sent or
\* received something).
FirstInstanceStep == <<pc, wire, answers, ncalls, op, result>>' # <<pc, wire, answers, ncalls, op, result>>

\* The second instance took a step.
SecondInstanceStep == peer' # peer

\* C32: with two independent instances interleaved against the same panel,
\* no step of one instance (session start, login, re-login, operation,
\* session end) changes the other instance's session token or connection,
\* and the request an instance sends carries its own token; only the panel
\* is changed by both.
C32_InstancesIsolated ==
    [][/\ SecondInstanceStep => UNCHANGED <<client, session_cookie>>
       /\ FirstInstanceStep =>
              /\ peer'.client = peer.client
              /\ peer'.session_cookie = peer.session_cookie
              /\ pc' = "await" => wire'[Len(wire')].cookie = CookieHeader(session_cookie')
       /\ peer'.phase = "await" => PeerRequest'.cookie = CookieHeader(peer'.session_cookie)]_vars

\* Both instances hold a session of their own, with different tokens; the
\* second has logged in again after the first had finished a deletion that
\* changed the panel.
C32_Witness ==
    /\ pc = "body"
    /\ OpDone("delete_client")
    /\ result.kind = "return"
    /\ panel # before
    /\ client = "open"
    /\ session_cookie = "3x-ui=s1"
    /\ peer.phase = "done"
    /\ peer.client = "open"
    /\ peer.session_cookie = "3x-ui=s2"
    /\ peer.frame = NoFrame
    /\ peer.result.kind = "raise"

-----------------------------------------------------------------------------
(* The bot's handlers (src/bot/handlers).  The repositories of the local
   database and the QR and link helpers of utils are collaborators of the
   handlers: a repository returns and changes the stored record as its name
   says, and a helper returns its value or raises. *)

\* A user record of the local database; `exists` is false for the None that
\* get_by_tg_id and get_by_id return, inbound_id 0 stands for None.
User(exists, is_approved, is_active, inbound_id) ==
    [exists |-> exists, is_approved |-> is_approved, is_active |-> is_active,
     inbound_id |-> inbound_id, email |-> <<"a">>, uuid |-> "u-a"]

NoUser == User(FALSE, FALSE, FALSE, 0)

\* The records the user who pressed a button may have.
LocalUsers ==
    {NoUser} \cup {User(TRUE, FALSE, a, 0) : a \in BOOLEAN}
             \cup {User(TRUE, TRUE, a, i) : a \in BOOLEAN, i \in {0, 1}}

\* A connect handler that only looks at the approval.
Refusal_ApprovalOnly(user) ==
    IF ~user.exists \/ ~user.is_approved THEN "no_access" ELSE ""

\* show_connection, lines 231-243: the refusal the user is answered with, ""
\* when the handler goes on.
Refusal(user) ==
    IF ~user.exists \/ ~user.is_approved THEN "no_access"
    ELSE IF ~user.is_active THEN "deactivated"
    ELSE ""

\* generate_vless_link(uuid, email, server, port, sni) of utils.qr_generator:
\* the link made from the local record and the configured server.
generate_vless_link(uuid, email) ==
    [scheme |-> "vless://", user |-> uuid, server |-> "VLESS_SERVER", port |-> "VLESS_PORT",
     query |-> <<<<"sni", <<"VLESS_SNI">>>>>>, fragment |-> email]

\* show_connection, lines 254-264: `if not connection_link` replaces None by
\* the locally generated link.
LinkOrFallback(connection_link, user) ==
    IF connection_link = NoLink THEN generate_vless_link(user.uuid, user.email)
    ELSE connection_link

\* The handler has not started yet: the user it is going to serve.
ConnectPressed(user) ==
    [handler |-> "show_connection", phase |-> "start", user |-> user,
     connection_link |-> NoLink, asked |-> FALSE, fallback |-> FALSE, render |-> "none",
     sent |-> <<>>]

\* show_connection, lines 228-249: the record is read, the user is refused,
\* or the handler goes on to the panel (an inbound is assigned) or to the
\* local link.
ShowConnection ==
    /\ bot.phase = "start"
    /\ bot' = IF Refusal(bot.user) # ""
              THEN [bot EXCEPT !.phase = "done", !.sent = Append(@, Refusal(bot.user))]
              ELSE IF bot.user.inbound_id # 0
              THEN [bot EXCEPT !.phase = "session"]
              ELSE [bot EXCEPT !.phase = "link"]
    /\ UNCHANGED <<client, session_cookie, pc, frame, wire, frame0, answers, outcome, log,
                   ncalls, op, result, panel, before, prev, peer, link>>

\* A handler enters its `async with XUIClient() as xui` (line 251 of
\* show_connection; lines 121, 280, 323 and 378 of the admin handlers).
HandlerEnter ==
    /\ bot.phase = "session"
    /\ AEnter

\* get_client_link (lines 371-381) up to the await of get_inbound.
GetClientLinkStart(inbound_id, email) ==
    /\ result' = NoOutcome
    /\ op' = [name |-> "get_client_link", phase |-> "fetch", inbound_id |-> inbound_id,
              email |-> email]
    /\ MakeRequest(Frame("GET", GetEndpoint(inbound_id), NoneVal, TRUE), "body", <<>>,
                   <<LogRec("info", "Getting client link", ""),
                     LogRec("info", "Getting inbound configuration", ToString(inbound_id))>>)

\* Line 252: the body of the session calls get_client_link for the user.
ConnectGetLink ==
    /\ bot.handler = "show_connection"
    /\ OnlyOp
    /\ GetClientLinkStart(bot.user.inbound_id, bot.user.email)

\* An inbound as get/{id} answers it for the link generator: tcp, no
\* security, the given clients.
ConnectInbound(protocol, clients) ==
    [id |-> 1, remark |-> "inbound-1", protocol |-> protocol, port |-> 443, listen |-> <<>>,
     settings |-> Settings(clients),
     streamSettings |->
         [wf |-> TRUE, network |-> <<>>, security |-> <<>>,
          tlsSettings |-> [serverName |-> <<>>, alpn |-> <<>>],
          realitySettings |-> [publicKey |-> <<>>, fingerprint |-> <<>>, serverNames |-> <<>>,
                               shortIds |-> <<>>, spiderX |-> <<>>],
          wsSettings |-> [path |-> <<>>, host |-> <<>>],
          grpcSettings |-> [serviceName |-> <<>>],
          tcpSettings |-> [headerType |-> <<>>]]]

\* What the exchange of get_client_link's get_inbound may end with.
ConnectAnswers ==
    {HttpFailure("ReadTimeout"),
     HttpResponse(401, BodyHtml.text, FALSE, NoVal, <<>>),
     HttpResponse(500, BodyHtml.text, FALSE, NoVal, <<>>),
     HttpResponse(200, BodyHtml.text, FALSE, NoVal, <<>>)} \cup
    {HttpResponse(200, "json", TRUE, v, <<>>) :
        v \in {Envelope(FALSE, <<"Inbound Not Found">>, JNull), Envelope(TRUE, <<>>, JNull)} \cup
              {Envelope(TRUE, <<>>, JObj(ConnectInbound(p, cs))) :
                  p \in {<<"vless">>, <<"trojan">>, <<"shadowsocks">>},
                  cs \in {<<>>, <<[id |-> "u-a", email |-> <<"a">>, enable |-> TRUE,
                                   flow |-> <<>>, password |-> "pw"]>>}}}

\* The awaited exchange of get_inbound ends (lines 69-90).
ConnectRespond ==
    /\ pc = "await"
    /\ \E r \in ConnectAnswers : Responded(r)
    /\ UNCHANGED world

\* get_client_link from the answer of get_inbound on (lines 384-462).
GetClientLinkFetched ==
    /\ pc = "body"
    /\ op.name = "get_client_link"
    /\ op.phase = "fetch"
    /\ outcome.kind # "none"
    /\ LET res == get_client_link([base_url |-> <<"https://", "panel.example", ":", "2053">>],
                                  outcome, op.email)
       IN  /\ EndOp(res, op)
           /\ log' = Logged(log, <<IF res.val = NoLink THEN LogRec("error", "No link", "")
                                   ELSE LogRec("info", "Successfully generated link", "")>>)
    /\ UNCHANGED <<client, session_cookie, pc, frame, wire, frame0, answers, outcome, ncalls>>
    /\ UNCHANGED world

\* The body of the `async with` has ended: __aexit__ runs.
HandlerExit ==
    /\ op.phase = "done"
    /\ AExit

\* show_connection, lines 252-286, after the session (or without one): the
\* link of the panel or the local one is rendered and sent; an exception of
\* the try block, the one of a failed session start included, is answered
\* with the error text (lines 284-286).  generate_qr_code and answer_photo
\* (lines 268-280) return or raise.
ShowConnectionSend ==
    /\ \/ bot.phase = "link"
       \/ bot.phase = "session" /\ pc \in {"exited", AEnterOnLoginError}
    /\ \E rendered \in BOOLEAN :
         IF bot.phase = "session" /\ pc = AEnterOnLoginError
         THEN bot' = [bot EXCEPT !.phase = "done", !.sent = Append(@, "error")]
         ELSE LET got == IF bot.phase = "session" THEN result.val ELSE NoLink
                  connection_link == LinkOrFallback(got, bot.user)
              IN  bot' = [bot EXCEPT !.phase = "done",
                                     !.asked = bot.phase = "session",
                                     !.fallback = got = NoLink,
                                     !.connection_link = connection_link,
                                     !.render = IF rendered THEN "ok" ELSE "failed",
                                     !.sent = Append(@, IF rendered /\ connection_link # NoLink
                                                        THEN "photo" ELSE "error")]
    /\ UNCHANGED <<client, session_cookie, pc, frame, wire, frame0, answers, outcome, log,
                   ncalls, op, result, panel, before, prev, peer, link>>

InitConnect ==
    /\ NewInstance
    /\ panel = <<>>
    /\ before = <<>>
    /\ prev = NoPrev
    /\ peer = [phase |-> "none"]
    /\ link = [phase |-> "none"]
    /\ bot \in {ConnectPressed(u) : u \in LocalUsers}

NextConnect ==
    \/ ShowConnection
    \/ HandlerEnter
    \/ AEnterLogin
    \/ ConnectGetLink
    \/ ConnectRespond
    \/ ReLogin
    \/ GetClientLinkFetched
    \/ HandlerExit
    \/ ShowConnectionSend

SpecConnect == InitConnect /\ [][NextConnect]_vars

-----------------------------------------------------------------------------
(* C33 *)

\* The connect handler has finished for a user who is approved and active.
ConnectDoneForActive ==
    /\ bot.handler = "show_connection"
    /\ bot.phase = "done"
    /\ bot.user.exists
    /\ bot.user.is_approved
    /\ bot.user.is_active

\* C33 as stated: in the connect handler, whenever get_client_link gave no
\* link or the user has no inbound assigned, the link that is sent is the
\* locally made one, and an approved and active user is always sent a
\* connection link unless the rendering of the link itself failed.
C33_AlwaysSomeLink ==
    ConnectDoneForActive =>
        /\ (bot.user.inbound_id = 0 \/ (bot.asked /\ result.val = NoLink)) =>
               bot.connection_link = generate_vless_link(bot.user.uuid, bot.user.email)
        /\ bot.render # "failed" =>
               /\ bot.sent = <<"photo">>
               /\ bot.connection_link # NoLink

-----------------------------------------------------------------------------
(* C36 *)

\* The user of the connect handler is not approved (or has no record), or is
\* approved and deactivated.
NotEntitled ==
    /\ bot.handler = "show_connection"
    /\ ~bot.user.exists \/ ~bot.user.is_approved \/ ~bot.user.is_active

\* C36: a user who is not approved, or approved but deactivated, is never
\* sent a connection link by the connect handler: the handler answers with
\* the refusal only, opens no panel session, calls neither get_client_link
\* nor the local link fallback, and renders nothing.
C36_RefusedNoLink ==
    NotEntitled =>
        /\ \A i \in 1..Len(bot.sent) : bot.sent[i] # "photo"
        /\ pc = "new" /\ client = "None" /\ wire = <<>> /\ op = Idle
        /\ ~bot.asked /\ ~bot.fallback /\ bot.render = "none"
        /\ bot.connection_link = NoLink
        /\ bot.phase = "done" =>
               bot.sent = <<IF ~bot.user.exists \/ ~bot.user.is_approved
                            THEN "no_access" ELSE "deactivated">>

\* An approved user whose access was deactivated pressed the connect button
\* and was refused.
C36_Witness ==
    /\ NotEntitled
    /\ bot.user.is_approved
    /\ bot.user.inbound_id = 1
    /\ bot.phase = "done"
    /\ bot.sent = <<"deactivated">>

-----------------------------------------------------------------------------
(* The admin handlers that change a client on the panel and then the local
   record: approve_request, deactivate_user, activate_user, delete_user. *)

AdminHandlers == {"approve_request", "deactivate_user", "activate_user", "delete_user"}

\* The stored record of the user an admin button names, with the label the
\* panel operations of the model use.
AdminUser(exists, is_approved, is_active, inbound_id) ==
    [User(exists, is_approved, is_active, inbound_id) EXCEPT !.email = "a"]

\* The records the admin may act on.
AdminUsers ==
    {AdminUser(FALSE, FALSE, FALSE, 0), AdminUser(TRUE, FALSE, TRUE, 0),
     AdminUser(TRUE, TRUE, TRUE, 0)} \cup
    {AdminUser(TRUE, TRUE, a, i) : a \in BOOLEAN, i \in InboundIds}

\* user_repo.update_approval_status(user_id, True, inbound_id)
update_approval_status(user, is_approved, inbound_id) ==
    [user EXCEPT !.is_approved = is_approved, !.inbound_id = inbound_id]

\* user_repo.update_active_status(user_id, is_active)
update_active_status(user, is_active) == [user EXCEPT !.is_active = is_active]

\* user_repo.delete_user(user_id): the record is gone.
delete_user(user) == AdminUser(FALSE, FALSE, FALSE, 0)

\* The admin pressed a button for the user: `inbound_id` is the inbound of an
\* approval and `listed` says whether the inbound repository knows it.
AdminPressed(handler, user, inbound_id, listed) ==
    [handler |-> handler, phase |-> "start", user |-> user, db |-> user, db0 |-> user,
     request |-> "pending", written |-> FALSE, inbound_id |-> inbound_id, listed |-> listed,
     sent |-> <<>>]

\* The handlers up to their panel session: the record is read (approve
\* 109-117, deactivate 267-277, activate 310-320, delete 369-377); a missing
\* record, an unknown inbound or, for the status handlers, a user without
\* inbound ends the handler; delete_user goes to the local deletion at once
\* when the user has no inbound.
AdminStart ==
    /\ bot.phase = "start"
    /\ bot.handler \in AdminHandlers
    /\ bot' = IF ~bot.user.exists
              THEN [bot EXCEPT !.phase = "done", !.sent = Append(@, "user_not_found")]
              ELSE IF bot.handler = "approve_request"
              THEN IF bot.listed THEN [bot EXCEPT !.phase = "session"]
                   ELSE [bot EXCEPT !.phase = "done", !.sent = Append(@, "inbound_not_found")]
              ELSE IF bot.user.inbound_id # 0
              THEN [bot EXCEPT !.phase = "session"]
              ELSE IF bot.handler = "delete_user"
              THEN [bot EXCEPT !.phase = "write"]
              ELSE [bot EXCEPT !.phase = "done", !.sent = Append(@, "no_inbound")]
    /\ UNCHANGED <<client, session_cookie, pc, frame, wire, frame0, answers, outcome, log,
                   ncalls, op, result, panel, before, prev, peer, link>>

\* The panel operation of the handler starts in the body of its session
\* (approve 122-127, deactivate 281, activate 324, delete 379).
AdminOp ==
    /\ bot.handler \in AdminHandlers
    /\ OnlyOp
    /\ CASE bot.handler = "approve_request" ->
                CreateClientStart(bot.user.email, bot.user.uuid, bot.inbound_id, TRUE)
         [] bot.handler = "deactivate_user" ->
                UpdateClientStatusStart(bot.user.email, bot.user.uuid, bot.user.inbound_id, FALSE)
         [] bot.handler = "activate_user" ->
                UpdateClientStatusStart(bot.user.email, bot.user.uuid, bot.user.inbound_id, TRUE)
         [] bot.handler = "delete_user" ->
                DeleteClientStart(bot.user.uuid, bot.user.inbound_id)

\* A handler that goes on to its local write whatever the panel session did.
ReachesLocalWrite_Swallowed(at, res) == TRUE

\* The statements after the `async with` are reached when neither __aenter__
\* nor the operation of the body raised: both stand in the try block and
\* __aexit__ returns None (xui_client.py lines 37-40), so an exception goes
\* on to the except clauses (approve 155-173, deactivate 299-301, activate
\* 343-345, delete 399-401).
ReachesLocalWrite(at, res) == at = "exited" /\ res.kind = "return"

\* The local write of the handler (approve 130-131, deactivate 284, activate
\* 327, delete 382).
LocalWrite(b) ==
    CASE b.handler = "approve_request" ->
             [b EXCEPT !.db = update_approval_status(b.db, TRUE, b.inbound_id),
                       !.request = "approved"]
      [] b.handler = "deactivate_user" -> [b EXCEPT !.db = update_active_status(b.db, FALSE)]
      [] b.handler = "activate_user" -> [b EXCEPT !.db = update_active_status(b.db, TRUE)]
      [] b.handler = "delete_user" -> [b EXCEPT !.db = delete_user(b.db)]

\* The rest of the handler: after the session, the local write and the
\* notifications (which are sent or raise), or the answer of the except
\* clause.
AdminFinish ==
    /\ bot.handler \in AdminHandlers
    /\ \/ bot.phase = "write"
       \/ bot.phase = "session" /\ pc \in {"exited", AEnterOnLoginError}
    /\ \E notified \in BOOLEAN :
         bot' = IF bot.phase = "write" \/ ReachesLocalWrite(pc, result)
                THEN [LocalWrite(bot) EXCEPT !.phase = "done", !.written = TRUE,
                                             !.sent = Append(@, IF notified THEN "done"
                                                                ELSE "error")]
                ELSE [bot EXCEPT !.phase = "done", !.sent = Append(@, "error")]
    /\ UNCHANGED <<client, session_cookie, pc, frame, wire, frame0, answers, outcome, log,
                   ncalls, op, result, panel, before, prev, peer, link>>

InitAdmin ==
    /\ NewInstance
    /\ panel \in InitialPanels
    /\ before = panel
    /\ prev = NoPrev
    /\ peer = [phase |-> "none"]
    /\ link = [phase |-> "none"]
    /\ bot \in {AdminPressed(h, u, i, l) : h \in AdminHandlers, u \in AdminUsers,
                                           i \in InboundIds, l \in BOOLEAN}

NextAdmin ==
    \/ AdminStart
    \/ HandlerEnter
    \/ AEnterLogin
    \/ AdminOp
    \/ CreateClientScanned
    \/ CreateClientAdded
    \/ UpdateClientStatusFetched
    \/ UpdateClientStatusUpdated
    \/ DeleteClientDeleted
    \/ PanelRespond
    \/ SessionExpired
    \/ ReLogin
    \/ HandlerExit
    \/ AdminFinish

SpecAdmin == InitAdmin /\ [][NextAdmin]_vars

-----------------------------------------------------------------------------
(* C35 *)

\* The panel operation an admin handler runs.
PanelOpOf(handler) ==
    CASE handler = "approve_request" -> "create_client"
      [] handler \in {"deactivate_user", "activate_user"} -> "update_client_status"
      [] handler = "delete_user" -> "delete_client"

\* The panel operation of the handler has succeeded and its session is over.
PanelOpSucceeded ==
    /\ pc = "exited"
    /\ op.phase = "done"
    /\ op.name = PanelOpOf(bot.handler)
    /\ result.kind = "return"

\* The panel session of the handler failed to open, or its operation raised.
PanelOpFailed == pc = AEnterOnLoginError \/ result.kind = "raise"

\* The local record and the access request are as the handler found them.
LocalUnchanged == ~bot.written /\ bot.db = bot.db0 /\ bot.request = "pending"

\* C35 as stated: in approve, activate, deactivate and confirm-delete the
\* local write happens only after the corresponding panel operation has
\* succeeded, and when the panel operation fails the local user record is
\* left unchanged.
C35_AsStated ==
    bot.handler \in AdminHandlers =>
        /\ ~LocalUnchanged => PanelOpSucceeded
        /\ PanelOpFailed => LocalUnchanged

\* C35, amended: the local write happens only after the corresponding panel
\* operation has succeeded, except that confirm-delete makes no panel call
\* for a user without an assigned inbound and deletes the local record at
\* once; when the panel operation fails, or its session cannot be opened, the
\* local record and the access request are left unchanged.
C35_WriteAfterPanelSuccess ==
    bot.handler \in AdminHandlers =>
        /\ ~LocalUnchanged =>
               \/ PanelOpSucceeded
               \/ /\ bot.handler = "delete_user"
                  /\ bot.user.inbound_id = 0
                  /\ ~bot.db.exists
                  /\ pc = "new" /\ wire = <<>> /\ op = Idle
        /\ PanelOpFailed => LocalUnchanged

\* An approval went through: the client was added on the panel and then the
\* local record was marked approved with the inbound.
C35_Witness ==
    /\ bot.handler = "approve_request"
    /\ bot.phase = "done"
    /\ PanelOpSucceeded
    /\ Occurrences(before, "a") = 0
    /\ Occurrences(panel, "a") = 1
    /\ ~bot.db0.is_approved
    /\ bot.db.is_approved
    /\ bot.db.inbound_id = bot.inbound_id
    /\ bot.request = "approved"

-----------------------------------------------------------------------------
(* The access-request dialogue of one Telegram user (user.py lines 90-188)
   and the rejection by the admin that lets the user apply again.  The
   updates of one user are handled one after the other. *)

\* Submissions of a name the model follows.
MaxSubmissions == 2

RequestButton == <<"request_access_button">>
CancelButton == <<"cancel_button">>

\* Texts the user may send, as their characters.
NameTexts ==
    {<<>>, <<" ">>, <<"A">>, <<" ", "A", "\n">>, <<"A", "l">>, <<" ", "A", "l", " ">>,
     <<"B", "o", "b">>}

\* user_repo.get_by_tg_id: the stored record of the user, or None.
get_by_tg_id(users) ==
    IF users = <<>> THEN [exists |-> FALSE, full_name |-> <<>>, is_approved |-> FALSE]
    ELSE users[1]

\* A request handler that lets everybody enter the dialogue.
AlreadyRequested_Nobody(user) == FALSE

\* request_access, line 96: `if user:`.
AlreadyRequested(user) == user.exists

\* process_name, line 132.
NameTooShort(full_name) == Len(full_name) < 2

\* What is kept of the update a handler has just served.
LastUpdate(handler, text, fate) ==
    [handler |-> handler, text |-> text, fate |-> fate, state |-> bot.state,
     users |-> bot.users, requests |-> bot.requests]

DialogueIdle(users) ==
    [handler |-> "dialogue", phase |-> "none", state |-> "none", users |-> users,
     requests |-> [i \in 1..Len(users) |-> "pending"], submissions |-> 0, sent |-> "",
     last |-> [handler |-> "none", text |-> <<>>, fate |-> "", state |-> "none",
               users |-> users, requests |-> [i \in 1..Len(users) |-> "pending"]]]

DialogueRest ==
    UNCHANGED <<client, session_cookie, pc, frame, wire, frame0, answers, outcome, log, ncalls,
                op, result, panel, before, prev, peer, link>>

\* request_access (lines 90-114), whatever the dialogue state: a user with a
\* record is answered, anybody else enters waiting_for_name.
RequestAccess ==
    /\ bot.handler = "dialogue"
    /\ LET user == get_by_tg_id(bot.users)
       IN  bot' = [bot EXCEPT
                     !.last = LastUpdate("request_access", RequestButton, ""),
                     !.state = IF AlreadyRequested(user) THEN @ ELSE "waiting_for_name",
                     !.sent = IF ~AlreadyRequested(user) THEN "enter_name"
                              ELSE IF user.is_approved THEN "has_access"
                              ELSE "already_sent"]
    /\ DialogueRest

\* cancel_request (lines 117-124): in waiting_for_name, the cancel button.
CancelRequest ==
    /\ bot.handler = "dialogue"
    /\ bot.state = "waiting_for_name"
    /\ bot' = [bot EXCEPT !.last = LastUpdate("cancel_request", CancelButton, ""),
                          !.state = "none", !.sent = "cancelled"]
    /\ DialogueRest

\* process_name (lines 127-188): in waiting_for_name, any other text.  The
\* record is created, then the request, then the admin is told; each of the
\* three returns or raises.
ProcessName ==
    /\ bot.handler = "dialogue"
    /\ bot.state = "waiting_for_name"
    /\ \E text \in NameTexts, fate \in {"ok", "create_raises", "request_raises", "notify_raises"} :
         LET full_name == Strip(text)
             created == Append(bot.users, [exists |-> TRUE, full_name |-> full_name,
                                           is_approved |-> FALSE])
         IN  IF NameTooShort(full_name)
             THEN bot' = [bot EXCEPT !.last = LastUpdate("process_name", text, "short"),
                                     !.sent = "too_short"]
             ELSE /\ bot.submissions < MaxSubmissions
                  /\ bot' = [bot EXCEPT
                               !.last = LastUpdate("process_name", text, fate),
                               !.submissions = @ + 1,
                               !.users = IF fate = "create_raises" THEN @ ELSE created,
                               !.requests = IF fate \in {"create_raises", "request_raises"}
                                            THEN @ ELSE Append(@, "pending"),
                               !.state = "none",
                               !.sent = IF fate = "ok" THEN "request_sent" ELSE "error"]
    /\ DialogueRest

\* reject_request (admin.py lines 176-217): the request is marked rejected and
\* the user record is deleted, so that the user may apply again.
RejectRequest ==
    /\ bot.handler = "dialogue"
    /\ bot.users # <<>>
    /\ ~bot.users[1].is_approved
    /\ bot' = [bot EXCEPT !.last = LastUpdate("reject_request", <<>>, ""),
                          !.users = Tail(@),
                          !.requests = [i \in DOMAIN @ |-> "rejected"],
                          !.sent = "rejected"]
    /\ DialogueRest

InitRequest ==
    /\ NewInstance
    /\ panel = <<>>
    /\ before = <<>>
    /\ prev = NoPrev
    /\ peer = [phase |-> "none"]
    /\ link = [phase |-> "none"]
    /\ bot \in {DialogueIdle(us) :
                  us \in {<<>>} \cup {<<[exists |-> TRUE, full_name |-> <<"A", "l">>,
                                        is_approved |-> a]>> : a \in BOOLEAN}}

NextRequest ==
    \/ RequestAccess
    \/ CancelRequest
    \/ ProcessName
    \/ RejectRequest

SpecRequest == InitRequest /\ [][NextRequest]_vars

-----------------------------------------------------------------------------
(* C37 *)

\* The handler that served the last update was `handler`.
LastWas(handler) == bot.handler = "dialogue" /\ bot.last.handler = handler

====
